---- MODULE Spec2Model ----
(***************************************************************************)
(* Birthday-event resolution and message lifecycle of birthdays-to-slack:  *)
(* MessageGenerator (message store, sent tracking, fact history, prompt    *)
(* template), BirthdayService (event assembly, send pass), AliasManager    *)
(* and the event cache of the web application.                             *)
(*                                                                         *)
(* Strings are sequences of tokens: a name or a calendar summary is a      *)
(* sequence of one-character strings, a message or a prompt is a sequence  *)
(* of phrases in which a name appears character by character.  A Python    *)
(* value that may be None is <<>> (None) or <<v>> (the value v).  A Python *)
(* dict is a function whose DOMAIN is its key set; the key                 *)
(* f"{name}_{date.isoformat()}" is the pair <<name, date>> (the ISO date   *)
(* has a fixed width, so the formatted key determines both parts).         *)
(***************************************************************************)
EXTENDS Integers, Sequences, FiniteSets, TLC

\* ------------------------------------------------------------------ bounds
\* The clock advances in steps of TickHours, MaxTicks times at most.
MaxTicks == 1

\* The prompt history holds MaxHistory entries at most.
MaxHistory == 1

\* The days a refresh of the cache looks ahead in the runs of the whole bot
\* (BIRTHDAY_LOOK_AHEAD_DAYS).
BotLookAhead == 1

\* The prompt history holds MaxPromptEntries entries at most in the runs of
\* the prompt template alone.
MaxPromptEntries == 3

\* ------------------------------------------------------- program constants
\* timedelta(hours=24): the suppression window of was_message_sent_today.
SuppressHours == 24
\* One calendar day, in hours of the clock (current_date += timedelta(days=1)).
HoursPerDay == 24
\* BIRTHDAY_LOOK_AHEAD_DAYS default.
DefaultLookAhead == 30

\* One step of the clock: the length of the suppression window, so that a
\* record is 0 hours, exactly SuppressHours, or more than SuppressHours old.
TickHours == SuppressHours

\* ----------------------------------------------------------- Python values
None == <<>>
Some(x) == <<x>>

\* dict[k] = v
Put(d, k, v) ==
    [x \in (DOMAIN d) \cup {k} |-> IF x = k THEN v ELSE d[x]]

\* del dict[k]
Del(d, k) ==
    [x \in (DOMAIN d) \ {k} |-> d[x]]

\* dict.get(k, default) on a record
Get(rec, field, default) ==
    IF field \in DOMAIN rec THEN rec[field] ELSE default

EmptyDict == <<>>

\* Body(value): a LET whose value is computed once.
With(value, Body(_)) == CHOOSE result \in {Body(v) : v \in {value}} : TRUE

\* ------------------------------------------------------------- str methods
IsSpace(c) == c \in {" ", "\t"}

\* str.lstrip()
RECURSIVE LStrip(_)
LStrip(s) ==
    IF s # <<>> /\ IsSpace(Head(s)) THEN LStrip(Tail(s)) ELSE s

\* str.rstrip()
RECURSIVE RStrip(_)
RStrip(s) ==
    IF s # <<>> /\ IsSpace(s[Len(s)]) THEN RStrip(SubSeq(s, 1, Len(s) - 1)) ELSE s

\* str.strip()
Strip(s) == RStrip(LStrip(s))

\* sep in s
Contains(s, sep) == \E i \in 1..Len(s) : s[i] = sep

\* s.split(sep)[0]: the text before the first sep, all of s when sep is absent
RECURSIVE SplitFirst(_, _)
SplitFirst(s, sep) ==
    IF s = <<>> \/ Head(s) = sep THEN <<>>
    ELSE <<Head(s)>> \o SplitFirst(Tail(s), sep)

\* s.replace(old, new) for a one-token new
ReplaceTok(s, old, new) ==
    [i \in 1..Len(s) |-> IF s[i] = old THEN new ELSE s[i]]

\* s.replace(old, "")
RemoveTok(s, old) == SelectSeq(s, LAMBDA t : t # old)

\* str.lower(), token by token
LowerTok(t) ==
    CASE t = "A" -> "a"
      [] t = "B" -> "b"
      [] t = "C" -> "c"
      [] t = "D" -> "d"
      [] t = "And Also" -> "and also"
      [] OTHER -> t

Lower(s) == [i \in 1..Len(s) |-> LowerTok(s[i])]

\* ------------------------------------------------------------------- state
VARIABLES
    generated_messages,   \* MessageGenerator.generated_messages
    history,              \* MessageGenerator.history (facts per name)
    sent_messages,        \* MessageGenerator.sent_messages
    prompt_template,      \* MessageGenerator.prompt_template
    prompt_history,       \* MessageGenerator.prompt_history
    aliases,              \* AliasManager.aliases
    aliases_file,         \* data/aliases.json
    prompt_files,         \* data/current_prompt.txt and data/prompt_history.json
    threads,              \* the scheduler jobs and request handlers under way:
                          \* per thread its position and its local variables
    birthday_cache,       \* app.birthday_cache
    feed,                 \* the calendar behind ICS_URL: a sequence of VEVENTs
    config,               \* OPENAI_API_KEY / WEBHOOK_URL / SLACK_NOTIFICATIONS_ENABLED
    now,                  \* datetime.utcnow(), in hours
    last,                 \* the last call: its arguments, result and effects
    edits,                \* per key: the text of its last manual edit, until the
                          \* key is deleted or regenerated
    prevGen               \* when last is a generate_message call without regenerate:
                          \* the call before it, if that was one for the same key

vars == <<generated_messages, history, sent_messages, prompt_template,
          prompt_history, aliases, birthday_cache, feed, config, now, last,
          edits, prevGen, aliases_file, prompt_files, threads>>

\* ------------------------------------------------------------ the universe
\* Names as they appear before the hyphen of a calendar summary.
NameAB == <<"A", " ", "B">>
NameC == <<"C">>
Names == {NameAB, NameC}

\* date objects are day numbers; clock hour h lies in day h \div HoursPerDay.
Dates == {0, 1}

\* birthday_date.strftime("%B %d")
MonthDay(d) == "March " \o ToString(15 + d)

\* What chat.completions.create can answer (message.content).
RespMoon == <<"On this day,", "moon", "and also", "hb">>
RespPlain == <<" ", "hello">>
RespBlank == <<" ">>
RespSun == <<"On this day in history,", "sun", "and also", "many more">>
Responses == {RespMoon, RespPlain, RespBlank}

\* The outcome of one backend call: None when it raises, Some(content) else.
BackendOutcomes == {None} \cup {Some(r) : r \in Responses}

\* Texts a user types into the message editor.
EditTexts == {<<"edited">>}

\* Prompt templates: the built-in one, a valid one, one that passes the
\* placeholder check but names a field str.format cannot fill, and two that
\* lack a required placeholder.
DEFAULT_PROMPT_TEMPLATE == <<"It looks like", "{employee_name}", "on", "{birthday_date}">>
TemplateNew == <<"Write to", "{employee_name}", "{birthday_date}">>
TemplateStray == <<"{employee_name}", "{birthday_date}", "{other}">>
TemplateNoName == <<"for", "{birthday_date}">>
TemplateNoDate == <<"for", "{employee_name}">>
Templates == {DEFAULT_PROMPT_TEMPLATE, TemplateNew, TemplateStray, TemplateNoName,
              TemplateNoDate}

\* ------------------------------------------------- MessageGenerator: prompt
\* str.format raises KeyError on a replacement field it was given no value for.
FormatRaises(template) == Contains(template, "{other}")

\* self.prompt_template.format(employee_name=..., birthday_date=...)
RECURSIVE Format(_, _, _)
Format(template, employee_name, birthday_date) ==
    IF template = <<>> THEN <<>>
    ELSE (CASE Head(template) = "{employee_name}" -> employee_name
            [] Head(template) = "{birthday_date}" -> <<MonthDay(birthday_date)>>
            [] OTHER -> <<Head(template)>>)
         \o Format(Tail(template), employee_name, birthday_date)

\* for i, fact in enumerate(previous_facts, 1): exclusions += f"{i}. {fact}\n"
RECURSIVE Exclusions(_, _)
Exclusions(previous_facts, i) ==
    IF i > Len(previous_facts) THEN <<>>
    ELSE <<ToString(i) \o ". ">> \o previous_facts[i] \o <<"\n">>
         \o Exclusions(previous_facts, i + 1)

\* BuildPrompt with a slip: a single previous fact is not excluded.
BuildPrompt_needing_two(template, employee_name, birthday_date, previous_facts) ==
    Format(template, employee_name, birthday_date)
    \o (IF Len(previous_facts) > 1
        THEN <<"DO NOT use these historical facts">>
             \o Exclusions(previous_facts, 1)
             \o <<"Instead, find a different fact">>
        ELSE <<>>)

BuildPrompt(template, employee_name, birthday_date, previous_facts) ==
    Format(template, employee_name, birthday_date)
    \o (IF previous_facts # <<>>
        THEN <<"DO NOT use these historical facts">>
             \o Exclusions(previous_facts, 1)
             \o <<"Instead, find a different fact">>
        ELSE <<>>)

\* MessageGenerator.extract_historical_fact
extract_historical_fact(message) ==
    IF Contains(Lower(message), "and also")
    THEN LET fact0 == Strip(SplitFirst(message, "and also"))
             fact1 == Strip(RemoveTok(fact0, "On this day in history,"))
             fact2 == Strip(RemoveTok(fact1, "On this day,"))
         IN  Some(fact2)
    ELSE None

\* The fallback message of generate_message's except branch.
FallbackMessage(employee_name) ==
    <<"*Happy Birthday ">> \o employee_name \o <<"!*", "Wishing you a fantastic day">>

\* Python truth of an optional string: neither None nor "".
Truthy(opt) == opt # None /\ opt[1] # <<>>

\* AddFact with a slip: the fact is appended without asking whether the list
\* has it.
AddFact_unchecked(hist, employee_name, fact) ==
    IF Truthy(fact) /\ employee_name \in DOMAIN hist
    THEN Put(hist, employee_name, Append(hist[employee_name], fact[1]))
    ELSE Put(hist, employee_name, IF Truthy(fact) THEN <<fact[1]>> ELSE <<>>)

\* The fact-history update after a successful generation.
AddFact(hist, employee_name, fact) ==
    IF Truthy(fact) /\ employee_name \in DOMAIN hist
    THEN IF ~Contains(hist[employee_name], fact[1])
         THEN Put(hist, employee_name, Append(hist[employee_name], fact[1]))
         ELSE hist
    ELSE Put(hist, employee_name, IF Truthy(fact) THEN <<fact[1]>> ELSE <<>>)

\* The body of generate_message after the look-up of the store: use_existing
\* is the outcome of the test `not regenerate and message_key in
\* self.generated_messages`.
generate_message_from(gm, hist, template, employee_name, birthday_date, regenerate, outcome, t, use_existing) ==
    LET message_key == <<employee_name, birthday_date>>
        previous_facts == Get(hist, employee_name, <<>>)
        prompt == BuildPrompt(template, employee_name, birthday_date, previous_facts)
        call == [name |-> employee_name, date |-> birthday_date, prompt |-> prompt]
        message == Strip(outcome[1])
        fact == extract_historical_fact(message)
        result == [message |-> message,
                   historical_fact |-> fact,
                   generated_at |-> t,
                   employee_name |-> employee_name,
                   birthday_date |-> birthday_date,
                   regenerated |-> regenerate]
        fallback == [message |-> FallbackMessage(employee_name),
                     historical_fact |-> None,
                     generated_at |-> t,
                     employee_name |-> employee_name,
                     birthday_date |-> birthday_date,
                     error |-> "API Error",
                     fallback |-> TRUE]
    IN  IF use_existing
        THEN [gm |-> gm, hist |-> hist, ret |-> Some(gm[message_key]),
              raised |-> FALSE, calls |-> <<>>]
        ELSE IF FormatRaises(template)
        THEN [gm |-> gm, hist |-> hist, ret |-> None, raised |-> TRUE, calls |-> <<>>]
        ELSE IF outcome = None
        THEN [gm |-> gm, hist |-> hist, ret |-> Some(fallback),
              raised |-> FALSE, calls |-> <<call>>]
        ELSE [gm |-> Put(gm, message_key, result),
              hist |-> AddFact(hist, employee_name, fact),
              ret |-> Some(result), raised |-> FALSE, calls |-> <<call>>]

\* generate_message with a slip: a manually edited entry is not served from
\* the store but generated afresh.
generate_message_ignoring_edits(gm, hist, template, employee_name, birthday_date, regenerate, outcome, t) ==
    generate_message_from(gm, hist, template, employee_name, birthday_date,
                          regenerate, outcome, t,
                          /\ ~regenerate
                          /\ <<employee_name, birthday_date>> \in DOMAIN gm
                          /\ ~Get(gm[<<employee_name, birthday_date>>], "manually_edited", FALSE))

\* MessageGenerator.generate_message.  outcome is what the backend does if it
\* is called, t the clock.  The result: the store and the fact history after
\* the call, the returned record (None when the call raised), and the backend
\* invocations made.
generate_message(gm, hist, template, employee_name, birthday_date, regenerate, outcome, t) ==
    generate_message_from(gm, hist, template, employee_name, birthday_date,
                          regenerate, outcome, t,
                          ~regenerate /\ <<employee_name, birthday_date>> \in DOMAIN gm)

\* update_message with a slip: the manual-edit flag is not set.
update_message_unflagged(gm, employee_name, birthday_date, new_message, t) ==
    LET message_key == <<employee_name, birthday_date>> IN
    IF message_key \notin DOMAIN gm
    THEN [gm |-> gm, ret |-> FALSE]
    ELSE [gm |-> Put(gm, message_key,
                     Put(Put(gm[message_key], "message", new_message),
                         "edited_at", t)),
          ret |-> TRUE]

\* update_message with a slip: the historical fact of the entry is reset.
update_message_clearing_fact(gm, employee_name, birthday_date, new_message, t) ==
    LET message_key == <<employee_name, birthday_date>> IN
    IF message_key \notin DOMAIN gm
    THEN [gm |-> gm, ret |-> FALSE]
    ELSE [gm |-> Put(gm, message_key,
                     Put(Put(Put(Put(gm[message_key], "message", new_message),
                                 "manually_edited", TRUE),
                             "edited_at", t),
                         "historical_fact", None)),
          ret |-> TRUE]

\* MessageGenerator.update_message: the store after the call and its result.
update_message(gm, employee_name, birthday_date, new_message, t) ==
    LET message_key == <<employee_name, birthday_date>> IN
    IF message_key \notin DOMAIN gm
    THEN [gm |-> gm, ret |-> FALSE]
    ELSE [gm |-> Put(gm, message_key,
                     Put(Put(Put(gm[message_key], "message", new_message),
                             "manually_edited", TRUE),
                         "edited_at", t)),
          ret |-> TRUE]

\* MessageGenerator.delete_generated_message
delete_generated_message(gm, employee_name, birthday_date) ==
    IF <<employee_name, birthday_date>> \in DOMAIN gm
    THEN Del(gm, <<employee_name, birthday_date>>)
    ELSE gm

\* MessageGenerator.get_generated_message
get_generated_message(gm, employee_name, birthday_date) ==
    IF <<employee_name, birthday_date>> \in DOMAIN gm
    THEN Some(gm[<<employee_name, birthday_date>>])
    ELSE None

\* MessageGenerator.mark_message_sent
mark_message_sent(sent, employee_name, birthday_date, message, t) ==
    Put(sent, <<employee_name, birthday_date>>,
        [message |-> message, sent_at |-> t,
         employee_name |-> employee_name, birthday_date |-> birthday_date])

\* was_message_sent_today with a slip: a record of exactly 24 hours counts.
was_message_sent_today_inclusive(sent, employee_name, birthday_date, t) ==
    /\ <<employee_name, birthday_date>> \in DOMAIN sent
    /\ t - sent[<<employee_name, birthday_date>>].sent_at <= SuppressHours

\* MessageGenerator.was_message_sent_today
was_message_sent_today(sent, employee_name, birthday_date, t) ==
    /\ <<employee_name, birthday_date>> \in DOMAIN sent
    /\ t - sent[<<employee_name, birthday_date>>].sent_at < SuppressHours

\* MessageGenerator.clear_sent_tracking
clear_sent_tracking(sent, employee_name, birthday_date) ==
    IF <<employee_name, birthday_date>> \in DOMAIN sent
    THEN Del(sent, <<employee_name, birthday_date>>)
    ELSE sent

\* ---------------------------------------------------------- BirthdayService
\* What the directory does on one look-up: an entry is found, none is found,
\* or the connection fails.
LdapOutcomes == {"found", "notfound", "error"}

\* first_last = full_name.replace(' ', '.').lower()
first_last(full_name) == Lower(ReplaceTok(full_name, " ", "."))

\* verify_person_in_ldap with a slip: a failed connection counts as a member.
verify_person_in_ldap_fail_open(full_name, outcome) ==
    outcome # "notfound"

\* BirthdayService.verify_person_in_ldap: len(conn.entries) > 0, and False
\* from the except branch when the connection or the search raises.
verify_person_in_ldap(full_name, outcome) ==
    IF outcome = "error" THEN FALSE ELSE outcome = "found"

\* The test of line 70 with a slip: the validity of the person is not asked.
wants_message_unvalidated(ldap_valid) ==
    config.openai

\* `if ldap_valid and self.message_generator`
wants_message(ldap_valid) ==
    ldap_valid /\ config.openai

\* f":birthday: Happy Birthday {full_name}! :tada:"
SimpleMessage(full_name) ==
    <<":birthday: Happy Birthday ">> \o full_name \o <<"! :tada:">>

\* Lines 79-82 with a slip: the text of any returned record is taken, the
\* fallback record of a failed generation included.
event_message_of_any_record(full_name, ldap_valid, message_data) ==
    IF message_data # None
    THEN Some(message_data[1].message)
    ELSE IF ldap_valid THEN Some(SimpleMessage(full_name)) ELSE None

\* Lines 79-82 with a slip: a manually edited record is passed over.
event_message_dropping_edits(full_name, ldap_valid, message_data) ==
    IF /\ message_data # None /\ Get(message_data[1], "error", "") = ""
       /\ ~Get(message_data[1], "manually_edited", FALSE)
    THEN Some(message_data[1].message)
    ELSE IF ldap_valid THEN Some(SimpleMessage(full_name)) ELSE None

\* Lines 79-82: the generated message, or the simple one for a valid person.
event_message(full_name, ldap_valid, message_data) ==
    IF message_data # None /\ Get(message_data[1], "error", "") = ""
    THEN Some(message_data[1].message)
    ELSE IF ldap_valid THEN Some(SimpleMessage(full_name)) ELSE None

\* The body of the loop of get_birthday_events_for_date for component i of
\* the calendar.  acc carries the store, the fact history, the events so far
\* and what was done (steps, backend calls); env is what the directory and the
\* backend do for this component.
resolve_component(acc, i, target_date, env) ==
    LET event_summary == feed[i].summary
        full_name == Strip(SplitFirst(event_summary, "-"))
        ldap_valid == verify_person_in_ldap(full_name, env.ldap[i])
        generate == wants_message(ldap_valid)
        unused == [gm |-> acc.gm, hist |-> acc.hist, ret |-> None,
                   raised |-> FALSE, calls |-> <<>>]
        Emit(gen) ==
            LET message_data == IF generate /\ ~gen.raised THEN gen.ret ELSE None
                event_data == [name |-> full_name,
                               summary |-> event_summary,
                               date |-> target_date,
                               ldap_valid |-> ldap_valid,
                               will_send |-> ldap_valid,
                               message |-> event_message(full_name, ldap_valid,
                                                         message_data),
                               message_data |-> message_data]
                step == [index |-> i,
                         raw_name |-> full_name,
                         uid |-> first_last(full_name),
                         ldap |-> env.ldap[i],
                         store_key |-> IF generate
                                       THEN Some(<<full_name, target_date>>)
                                       ELSE None,
                         calls |-> Len(gen.calls)]
            IN  [gm |-> gen.gm,
                 hist |-> gen.hist,
                 events |-> Append(acc.events, event_data),
                 steps |-> Append(acc.steps, step),
                 calls |-> acc.calls \o gen.calls,
                 failed |-> FALSE,
                 fetched |-> acc.fetched]
    IN  With(IF generate
             THEN generate_message(acc.gm, acc.hist, prompt_template, full_name,
                                   target_date, FALSE, env.backend[i], now)
             ELSE unused,
             Emit)

\* for component in calendar.walk(): components i, i+1, ... of the calendar.
\* A VEVENT without DTSTART raises (None has no .dt) and ends the walk.
RECURSIVE walk(_, _, _, _)
walk(i, acc, target_date, env) ==
    IF i > Len(feed) THEN acc
    ELSE IF feed[i].dtstart = None THEN [acc EXCEPT !.failed = TRUE]
    ELSE IF feed[i].dtstart[1] = target_date /\ Contains(feed[i].summary, "-")
    THEN With(resolve_component(acc, i, target_date, env),
              LAMBDA next : walk(i + 1, next, target_date, env))
    ELSE walk(i + 1, acc, target_date, env)

\* get_birthday_events_for_date with a slip: a failed download is logged, and
\* the walk goes on over the calendar all the same.
get_birthday_events_for_date_despite_download(gm, hist, target_date, env) ==
    LET start == [gm |-> gm, hist |-> hist, events |-> <<>>, steps |-> <<>>,
                  calls |-> <<>>, failed |-> FALSE,
                  fetched |-> target_date \notin env.download]
    IN  With(walk(1, start, target_date, env),
             LAMBDA done : IF done.failed THEN [done EXCEPT !.events = <<>>]
                           ELSE [done EXCEPT !.failed = ~done.fetched])

\* BirthdayService.get_birthday_events_for_date.  env.download is the set of
\* dates for which download_ics or Calendar.from_ical raises.  The except
\* branch returns [] and keeps what the walk has already stored.
get_birthday_events_for_date(gm, hist, target_date, env) ==
    LET start == [gm |-> gm, hist |-> hist, events |-> <<>>, steps |-> <<>>,
                  calls |-> <<>>, failed |-> FALSE,
                  fetched |-> target_date \notin env.download]
    IN  IF target_date \in env.download
        THEN [start EXCEPT !.failed = TRUE]
        ELSE With(walk(1, start, target_date, env),
                  LAMBDA done : IF done.failed THEN [done EXCEPT !.events = <<>>]
                                ELSE done)

\* BirthdayService.send_slack_message: post is what requests.post and
\* raise_for_status do when they are reached (TRUE: the POST succeeds).
send_slack_message(message, post) ==
    IF ~config.webhook_url THEN [posted |-> FALSE, raised |-> FALSE]
    ELSE IF ~config.slack_enabled THEN [posted |-> FALSE, raised |-> FALSE]
    ELSE IF post THEN [posted |-> TRUE, raised |-> FALSE]
    ELSE [posted |-> FALSE, raised |-> TRUE]

\* Line 142 with a slip: the sent tracking is not consulted.
already_sent_unchecked(sent, event, target_date) ==
    FALSE

\* `self.message_generator and self.message_generator.was_message_sent_today(...)`
already_sent(sent, event, target_date) ==
    config.openai /\ was_message_sent_today(sent, event.name, target_date, now)

\* Lines 146-156 with a slip: the message is marked sent before the delivery
\* is attempted, so a failed delivery leaves its mark.
deliver_marking_first(acc, j, event, target_date, post) ==
    LET sending == send_slack_message(event.message[1], post)
        attempt == [event |-> j, name |-> event.name, date |-> target_date,
                    message |-> event.message[1],
                    posted |-> sending.posted, raised |-> sending.raised]
        marked == IF config.openai
                  THEN mark_message_sent(acc.sent, event.name, target_date,
                                         event.message[1], now)
                  ELSE acc.sent
    IN  IF sending.raised
        THEN [acc EXCEPT !.sent = marked, !.handed = Append(@, attempt)]
        ELSE [sent |-> marked,
              sent_messages |-> Append(acc.sent_messages, event.message[1]),
              handed |-> Append(acc.handed, attempt),
              skipped |-> acc.skipped]

\* Lines 146-156: the try block of the send loop for one event.
deliver(acc, j, event, target_date, post) ==
    LET sending == send_slack_message(event.message[1], post)
        attempt == [event |-> j, name |-> event.name, date |-> target_date,
                    message |-> event.message[1],
                    posted |-> sending.posted, raised |-> sending.raised]
    IN  IF sending.raised
        THEN [acc EXCEPT !.handed = Append(@, attempt)]
        ELSE [sent |-> IF config.openai
                       THEN mark_message_sent(acc.sent, event.name, target_date,
                                              event.message[1], now)
                       ELSE acc.sent,
              sent_messages |-> Append(acc.sent_messages, event.message[1]),
              handed |-> Append(acc.handed, attempt),
              skipped |-> acc.skipped]

\* for event in events: events j, j+1, ... of the list.
RECURSIVE send_loop(_, _, _, _, _)
send_loop(j, acc, events, target_date, env) ==
    IF j > Len(events) THEN acc
    ELSE IF events[j].will_send /\ Truthy(events[j].message)
    THEN IF already_sent(acc.sent, events[j], target_date)
         THEN send_loop(j + 1, [acc EXCEPT !.skipped = Append(@, j)],
                        events, target_date, env)
         ELSE With(deliver(acc, j, events[j], target_date, env.post[j]),
                   LAMBDA next : send_loop(j + 1, next, events, target_date, env))
    ELSE send_loop(j + 1, acc, events, target_date, env)

\* BirthdayService.send_birthday_messages
send_birthday_messages(gm, hist, sent, target_date, env) ==
    LET start == [sent |-> sent, sent_messages |-> <<>>, handed |-> <<>>,
                  skipped |-> <<>>]
        Send(resolved) ==
            With(send_loop(1, start, resolved.events, target_date, env),
                 LAMBDA done :
                     [gm |-> resolved.gm, hist |-> resolved.hist, sent |-> done.sent,
                      events |-> resolved.events, steps |-> resolved.steps,
                      calls |-> resolved.calls, failed |-> resolved.failed,
                      fetched |-> resolved.fetched,
                      sent_messages |-> done.sent_messages, handed |-> done.handed,
                      skipped |-> done.skipped])
    IN  With(get_birthday_events_for_date(gm, hist, target_date, env), Send)

\* BirthdayService.regenerate_message (with a message generator): delete,
\* then generate with regenerate=True; None when generate_message raises.
regenerate_message(gm, hist, employee_name, birthday_date, outcome) ==
    LET deleted == delete_generated_message(gm, employee_name, birthday_date)
        gen == generate_message(deleted, hist, prompt_template, employee_name,
                                birthday_date, TRUE, outcome, now)
    IN  gen

\* _save_prompt_template with a slip: the new text is pushed into the history
\* instead of the text it replaces.
save_prompt_template_pushing_new(current, entries, template, description, t) ==
    [template |-> template,
     history |-> IF current # template
                 THEN Append(entries,
                             [id |-> Len(entries) + 1,
                              template |-> template,
                              description |-> IF description # <<>> THEN description
                                              ELSE <<"Previous version">>,
                              created_at |-> t,
                              active |-> FALSE])
                 ELSE entries]

\* _save_prompt_template with a slip: the previous text is put in front of
\* the history.
save_prompt_template_prepending(current, entries, template, description, t) ==
    [template |-> template,
     history |-> IF current # template
                 THEN <<[id |-> Len(entries) + 1,
                         template |-> current,
                         description |-> IF description # <<>> THEN description
                                         ELSE <<"Previous version">>,
                         created_at |-> t,
                         active |-> FALSE]>> \o entries
                 ELSE entries]

\* _save_prompt_template with a slip: the text is pushed even when the new
\* text is the current one.
save_prompt_template_always_pushing(current, entries, template, description, t) ==
    [template |-> template,
     history |-> Append(entries,
                        [id |-> Len(entries) + 1,
                         template |-> current,
                         description |-> IF description # <<>> THEN description
                                         ELSE <<"Previous version">>,
                         created_at |-> t,
                         active |-> FALSE])]

\* --------------------------------------- MessageGenerator: prompt templates
\* MessageGenerator._save_prompt_template
save_prompt_template(current, entries, template, description, t) ==
    [template |-> template,
     history |-> IF current # template
                 THEN Append(entries,
                             [id |-> Len(entries) + 1,
                              template |-> current,
                              description |-> IF description # <<>> THEN description
                                              ELSE <<"Previous version">>,
                              created_at |-> t,
                              active |-> FALSE])
                 ELSE entries]

\* update_prompt_template with a slip: only {employee_name} is asked for.
update_prompt_template_name_only(current, entries, new_template, description, t) ==
    IF ~Contains(new_template, "{employee_name}")
    THEN [template |-> current, history |-> entries, raised |-> TRUE]
    ELSE [template |-> save_prompt_template(current, entries, new_template, description, t).template,
          history |-> save_prompt_template(current, entries, new_template, description, t).history,
          raised |-> FALSE]

\* update_prompt_template with a slip: the placeholders are not asked for.
update_prompt_template_unvalidated(current, entries, new_template, description, t) ==
    [template |-> save_prompt_template(current, entries, new_template, description, t).template,
     history |-> save_prompt_template(current, entries, new_template, description, t).history,
     raised |-> FALSE]

\* MessageGenerator.update_prompt_template: raised is the ValueError.
update_prompt_template(current, entries, new_template, description, t) ==
    IF ~Contains(new_template, "{employee_name}") \/ ~Contains(new_template, "{birthday_date}")
    THEN [template |-> current, history |-> entries, raised |-> TRUE]
    ELSE [template |-> save_prompt_template(current, entries, new_template, description, t).template,
          history |-> save_prompt_template(current, entries, new_template, description, t).history,
          raised |-> FALSE]

\* The first entry of the history whose id prints as prompt_id; 0 when none.
FindEntry(entries, prompt_id) ==
    IF \E i \in 1..Len(entries) : ToString(entries[i].id) = prompt_id
    THEN CHOOSE i \in 1..Len(entries) :
            /\ ToString(entries[i].id) = prompt_id
            /\ \A k \in 1..(i - 1) : ToString(entries[k].id) # prompt_id
    ELSE 0

\* activate_prompt_from_history with a slip: "current" is saved again, with a
\* history entry, and an unknown id counts as a success.
activate_prompt_from_history_resaving(current, entries, prompt_id, t) ==
    IF FindEntry(entries, prompt_id) # 0
    THEN LET entry == entries[FindEntry(entries, prompt_id)]
             saved == save_prompt_template(current, entries, entry.template,
                                           <<"Reactivated:">> \o entry.description, t)
         IN  [template |-> saved.template, history |-> saved.history, ret |-> TRUE]
    ELSE [template |-> current,
          history |-> Append(entries,
                             [id |-> Len(entries) + 1, template |-> current,
                              description |-> <<"Previous version">>,
                              created_at |-> t, active |-> FALSE]),
          ret |-> TRUE]

\* MessageGenerator.activate_prompt_from_history
activate_prompt_from_history(current, entries, prompt_id, t) ==
    IF prompt_id = "current"
    THEN [template |-> current, history |-> entries, ret |-> TRUE]
    ELSE IF FindEntry(entries, prompt_id) # 0
    THEN LET entry == entries[FindEntry(entries, prompt_id)]
             saved == save_prompt_template(current, entries, entry.template,
                                           <<"Reactivated:">> \o entry.description, t)
         IN  [template |-> saved.template, history |-> saved.history, ret |-> TRUE]
    ELSE [template |-> current, history |-> entries, ret |-> FALSE]

\* MessageGenerator.get_prompt_history
get_prompt_history(current, entries) ==
    <<[id |-> "current", template |-> current,
       description |-> <<"Current active template">>,
       created_at |-> "current", active |-> TRUE]>> \o entries

\* No current_prompt.txt and no prompt_history.json in the data directory.
NoPromptFiles == [current |-> None, history |-> None]

\* Lines 116-122 of _save_prompt_template with _save_prompt_history: the text
\* is written to current_prompt.txt as given, the entries to
\* prompt_history.json.
write_prompt_files(template, entries) ==
    [current |-> Some(template), history |-> Some(entries)]

\* _load_prompt_template and _load_prompt_history, as the constructor runs
\* them over a data directory (with no prompts/default.txt): the text of
\* current_prompt.txt is stripped; without the file the built-in template is
\* written to it and used; without prompt_history.json the history is empty.
load_prompt_files(files) ==
    [template |-> IF files.current # None THEN Strip(files.current[1])
                  ELSE DEFAULT_PROMPT_TEMPLATE,
     history |-> IF files.history # None THEN files.history[1] ELSE <<>>,
     files |-> IF files.current # None THEN files
               ELSE [files EXCEPT !.current = Some(DEFAULT_PROMPT_TEMPLATE)]]

\* ------------------------------------------------------------- AliasManager
\* name_to_ldap_uid with a slip: the name is not stripped.
name_to_ldap_uid_unstripped(name) == Lower(ReplaceTok(name, " ", "."))

\* AliasManager.name_to_ldap_uid
name_to_ldap_uid(name) == Lower(ReplaceTok(Strip(name), " ", "."))

\* AliasManager.get_display_name
get_display_name(table, calendar_name) ==
    IF calendar_name \in DOMAIN table
    THEN table[calendar_name].display_name
    ELSE calendar_name

\* AliasManager.get_ldap_uid
get_ldap_uid(table, calendar_name) ==
    IF calendar_name \in DOMAIN table
    THEN table[calendar_name].ldap_uid
    ELSE name_to_ldap_uid(calendar_name)

\* AliasManager.get_alias with a slip: the stored dict itself is returned.
get_alias_uncopied(table, calendar_name) ==
    IF calendar_name \in DOMAIN table
    THEN [ret |-> Some(table[calendar_name]), shares |-> Some(calendar_name)]
    ELSE [ret |-> None, shares |-> None]

\* AliasManager.get_alias.  shares names the stored dict the returned object
\* is, None for a dict of its own (.copy()).
get_alias(table, calendar_name) ==
    IF calendar_name \in DOMAIN table
    THEN [ret |-> Some(table[calendar_name]), shares |-> None]
    ELSE [ret |-> None, shares |-> None]

\* AliasManager.get_all_aliases: a new dict of copies.
get_all_aliases(table) ==
    [ret |-> [calendar_name \in DOMAIN table |-> table[calendar_name]],
     shares |-> None]

\* add_alias with a slip: a known calendar name is registered again.
add_alias_overwriting(table, calendar_name, display_name, notes, t) ==
    LET alias_data == [display_name |-> display_name,
                       ldap_uid |-> name_to_ldap_uid(display_name),
                       created_at |-> t,
                       notes |-> notes]
    IN  [aliases |-> Put(table, calendar_name, alias_data),
         ret |-> Some(alias_data), raised |-> FALSE, shares |-> None]

\* AliasManager.add_alias: raised is the ValueError for a known calendar name.
add_alias(table, calendar_name, display_name, notes, t) ==
    IF calendar_name \in DOMAIN table
    THEN [aliases |-> table, ret |-> None, raised |-> TRUE, shares |-> None]
    ELSE LET alias_data == [display_name |-> display_name,
                            ldap_uid |-> name_to_ldap_uid(display_name),
                            created_at |-> t,
                            notes |-> notes]
         IN  [aliases |-> Put(table, calendar_name, alias_data),
              ret |-> Some(alias_data), raised |-> FALSE, shares |-> None]

\* update_alias with a slip: the identifier is not recomputed.
update_alias_stale_uid(table, calendar_name, display_name, notes) ==
    IF calendar_name \notin DOMAIN table
    THEN [aliases |-> table, ret |-> None, shares |-> None]
    ELSE LET alias == [table[calendar_name] EXCEPT
                          !.display_name = display_name,
                          !.notes = IF notes # None THEN notes[1] ELSE @]
         IN  [aliases |-> Put(table, calendar_name, alias), ret |-> Some(alias),
              shares |-> None]

\* update_alias with a slip: omitted notes clear the notes.
update_alias_clearing_notes(table, calendar_name, display_name, notes) ==
    IF calendar_name \notin DOMAIN table
    THEN [aliases |-> table, ret |-> None, shares |-> None]
    ELSE LET alias == [table[calendar_name] EXCEPT
                          !.display_name = display_name,
                          !.ldap_uid = name_to_ldap_uid(display_name),
                          !.notes = IF notes # None THEN notes[1] ELSE <<>>]
         IN  [aliases |-> Put(table, calendar_name, alias), ret |-> Some(alias),
              shares |-> None]

\* AliasManager.update_alias: notes is None or Some(text).
update_alias(table, calendar_name, display_name, notes) ==
    IF calendar_name \notin DOMAIN table
    THEN [aliases |-> table, ret |-> None, shares |-> None]
    ELSE LET alias == [table[calendar_name] EXCEPT
                          !.display_name = display_name,
                          !.ldap_uid = name_to_ldap_uid(display_name),
                          !.notes = IF notes # None THEN notes[1] ELSE @]
         IN  [aliases |-> Put(table, calendar_name, alias), ret |-> Some(alias),
              shares |-> None]

\* AliasManager.delete_alias
delete_alias(table, calendar_name) ==
    IF calendar_name \notin DOMAIN table
    THEN [aliases |-> table, ret |-> FALSE]
    ELSE [aliases |-> Del(table, calendar_name), ret |-> TRUE]

\* What a write of aliases.json can do: the file is written; open() raises
\* and the file stays as it was; json.dump raises after open() has truncated
\* the file.
WriteOutcomes == {"written", "refused", "torn"}

\* No aliases.json in the data directory.
NoFile == [exists |-> FALSE, valid |-> FALSE, aliases |-> EmptyDict]

\* AliasManager._save_aliases: the file after the call; an exception is
\* logged and swallowed.
save_aliases(file, table, outcome) ==
    CASE outcome = "written" -> [exists |-> TRUE, valid |-> TRUE, aliases |-> table]
      [] outcome = "torn" -> [exists |-> TRUE, valid |-> FALSE, aliases |-> EmptyDict]
      [] OTHER -> file

\* AliasManager._load_aliases: the table a new AliasManager holds.
load_aliases(file) ==
    IF file.exists /\ file.valid THEN file.aliases ELSE EmptyDict

\* ---------------------------------------------------------- the event cache
\* datetime.now().date()
Today == now \div HoursPerDay

\* The while loop of update_birthday_cache from current_date to end_date.
RECURSIVE refresh_loop(_, _, _, _)
refresh_loop(current_date, end_date, acc, env) ==
    IF current_date > end_date THEN acc
    ELSE With(get_birthday_events_for_date(acc.gm, acc.hist, current_date, env),
              LAMBDA resolved :
                  refresh_loop(current_date + 1, end_date,
                               [gm |-> resolved.gm,
                                hist |-> resolved.hist,
                                new_cache |-> IF resolved.events # <<>>
                                              THEN Put(acc.new_cache, current_date,
                                                       resolved.events)
                                              ELSE acc.new_cache,
                                steps |-> acc.steps \o resolved.steps,
                                calls |-> acc.calls \o resolved.calls,
                                events |-> acc.events \o resolved.events,
                                resolved |-> Append(acc.resolved, current_date)],
                               env))

\* app.update_birthday_cache: new_cache is the cache after the call, which is
\* the cache before it when int() at line 64 raises and the except branch
\* logs and returns.
update_birthday_cache(gm, hist, env) ==
    LET start == [gm |-> gm, hist |-> hist, new_cache |-> EmptyDict,
                  steps |-> <<>>, calls |-> <<>>, events |-> <<>>,
                  resolved |-> <<>>]
    IN  IF config.look_ahead_valid
        THEN refresh_loop(Today, Today + config.look_ahead_days, start, env)
        ELSE [start EXCEPT !.new_cache = birthday_cache]

\* ------------------------------------------------------------ the calendar
EventAB0 == [summary |-> NameAB \o <<" ", "-", " ", "x">>, dtstart |-> Some(0)]
EventC0 == [summary |-> <<"C", "-", "x", "-", "y">>, dtstart |-> Some(0)]
EventC1 == [summary |-> <<"C", "-", "x", "-", "y">>, dtstart |-> Some(1)]
EventPlain0 == [summary |-> <<"x", " ", "y">>, dtstart |-> Some(0)]
EventNoStart == [summary |-> <<"C", "-", "x">>, dtstart |-> None]

\* The calendars served behind ICS_URL.
Feeds == {<<EventAB0, EventC0>>, <<EventAB0, EventAB0>>, <<EventPlain0, EventC1>>,
          <<EventC0, EventNoStart>>}

\* The dates some event of the calendar starts on.
FeedDates == {feed[i].dtstart[1] : i \in {k \in 1..Len(feed) : feed[k].dtstart # None}}

\* Component i of the calendar is a birthday on target_date.
IsBirthdayOn(i, target_date) ==
    /\ feed[i].dtstart # None
    /\ feed[i].dtstart[1] = target_date
    /\ Contains(feed[i].summary, "-")

\* The sequences whose i-th element is one of sets[i].
RECURSIVE Choices(_)
Choices(sets) ==
    IF sets = <<>> THEN {<<>>}
    ELSE {<<c>> \o s : c \in Head(sets), s \in Choices(Tail(sets))}

\* What the collaborators do during one call that resolves the dates `dates`:
\* the directory and the backend for component i of the calendar, the webhook
\* for event j of the pass, and the dates for which the download of the
\* calendar fails.  A choice that the call cannot observe (the directory for
\* a component it skips, the backend for a person it does not generate for,
\* the webhook when nothing is posted) is fixed, so that every behaviour of
\* the collaborators is listed once.  `stored` are the keys whose message is
\* taken to be served from the store (lines 215-222), for which the backend's
\* answer is fixed as well; with stored = {} the backend answers freely for
\* every valid person.
LdapChoices(dates, ldaps, download) ==
    LET choice(i) ==
            IF \E d \in dates : IsBirthdayOn(i, d) /\ d \notin download
            THEN ldaps ELSE {"notfound"}
    IN  Choices([i \in 1..Len(feed) |-> choice(i)])

BackendChoices(dates, outcomes, ldap, stored) ==
    LET choice(i) ==
            IF \/ ldap[i] # "found"
               \/ ~config.openai
               \/ \E d \in dates :
                     /\ IsBirthdayOn(i, d)
                     /\ <<Strip(SplitFirst(feed[i].summary, "-")), d>> \in stored
            THEN {None} ELSE outcomes
    IN  Choices([i \in 1..Len(feed) |-> choice(i)])

PostChoices(dates, posts, ldap) ==
    LET Components(d) == SelectSeq([i \in 1..Len(feed) |-> i],
                                   LAMBDA i : IsBirthdayOn(i, d))
        choice(j) ==
            IF /\ config.webhook_url
               /\ config.slack_enabled
               /\ \E d \in dates : /\ j <= Len(Components(d))
                                    /\ ldap[Components(d)[j]] = "found"
            THEN posts ELSE {TRUE}
    IN  Choices([j \in 1..Len(feed) |-> choice(j)])

Envs(dates, ldaps, outcomes, posts, downloads, stored) ==
    UNION {UNION {{[ldap |-> ldap, backend |-> backend, post |-> post,
                    download |-> download] :
                        backend \in BackendChoices(dates, outcomes, ldap, stored),
                        post \in PostChoices(dates, posts, ldap)} :
                  ldap \in LdapChoices(dates, ldaps, download)} :
           download \in downloads}

\* The environment of the process: OPENAI_API_KEY, WEBHOOK_URL,
\* SLACK_NOTIFICATIONS_ENABLED, BIRTHDAY_LOOK_AHEAD_DAYS.
Config(openai, webhook_url, slack_enabled) ==
    [openai |-> openai, webhook_url |-> webhook_url,
     slack_enabled |-> slack_enabled, look_ahead_days |-> DefaultLookAhead,
     look_ahead_valid |-> TRUE]

\* look_ahead_valid: the text of BIRTHDAY_LOOK_AHEAD_DAYS is a number, so that
\* int() at app.py 64 does not raise.
\* Everything configured; no API key; no webhook; notifications disabled (the
\* default of SLACK_NOTIFICATIONS_ENABLED).
Configs ==
    {Config(TRUE, TRUE, TRUE), Config(FALSE, TRUE, TRUE),
     Config(TRUE, FALSE, TRUE), Config(TRUE, TRUE, FALSE)}

\* --------------------------------------------------------------- the calls
NoCall ==
    [op |-> "none", name |-> <<>>, date |-> 0, regenerate |-> FALSE,
     text |-> <<>>, ret |-> None, ok |-> FALSE, raised |-> FALSE,
     calls |-> <<>>, steps |-> <<>>, events |-> <<>>, failed |-> FALSE,
     handed |-> <<>>, skipped |-> <<>>, sent_messages |-> <<>>,
     resolved |-> <<>>, fetched |-> TRUE, shares |-> None,
     notes |-> None]

\* No scheduler job and no request handler is under way.
NoThreads == <<>>

\* What prevGen keeps of the call before generate_message(name, date).
GenOf(call, name, date) ==
    IF call.op = "generate_message" /\ ~call.regenerate
       /\ call.name = name /\ call.date = date
    THEN Some([ret |-> call.ret, raised |-> call.raised, calls |-> Len(call.calls)])
    ELSE None

\* The state after construction, for a calendar and an environment.
Constructed(calendar, environment) ==
    /\ generated_messages = EmptyDict
    /\ history = EmptyDict
    /\ sent_messages = EmptyDict
    /\ prompt_template = DEFAULT_PROMPT_TEMPLATE
    /\ prompt_history = <<>>
    /\ aliases = EmptyDict
    /\ aliases_file = save_aliases(NoFile, EmptyDict, "written")
    /\ prompt_files = load_prompt_files(NoPromptFiles).files
    /\ threads = NoThreads
    /\ birthday_cache = EmptyDict
    /\ feed = calendar
    /\ config = environment
    /\ now = 0
    /\ last = NoCall
    /\ edits = EmptyDict
    /\ prevGen = None

Init ==
    \E calendar \in Feeds, environment \in Configs : Constructed(calendar, environment)

\* Time passes.
Tick ==
    /\ now + TickHours <= MaxTicks * TickHours
    /\ now' = now + TickHours
    /\ last' = [NoCall EXCEPT !.op = "tick"]
    /\ UNCHANGED edits
    /\ prevGen' = None
    /\ UNCHANGED <<generated_messages, history, sent_messages, prompt_template,
                   prompt_history, aliases, birthday_cache, feed, config>>
    /\ UNCHANGED aliases_file
    /\ UNCHANGED <<prompt_files, threads>>

\* Half that time passes.
HalfTick ==
    /\ now + (TickHours \div 2) <= MaxTicks * TickHours
    /\ now' = now + (TickHours \div 2)
    /\ last' = [NoCall EXCEPT !.op = "tick"]
    /\ UNCHANGED edits
    /\ prevGen' = None
    /\ UNCHANGED <<generated_messages, history, sent_messages, prompt_template,
                   prompt_history, aliases, birthday_cache, feed, config>>
    /\ UNCHANGED aliases_file
    /\ UNCHANGED <<prompt_files, threads>>

\* message_generator.generate_message(name, date, regenerate)
GenerateMessage(name, date, regenerate, outcome) ==
    /\ config.openai
    /\ \E r \in {generate_message(generated_messages, history, prompt_template,
                                 name, date, regenerate, outcome, now)} :
           /\ generated_messages' = r.gm
           /\ history' = r.hist
           /\ last' = [NoCall EXCEPT !.op = "generate_message", !.name = name,
                                     !.date = date, !.regenerate = regenerate,
                                     !.ret = r.ret, !.raised = r.raised,
                                     !.calls = r.calls]
    /\ edits' = IF regenerate THEN Del(edits, <<name, date>>) ELSE edits
    /\ prevGen' = IF regenerate THEN None ELSE GenOf(last, name, date)
    /\ UNCHANGED <<sent_messages, prompt_template, prompt_history, aliases,
                   birthday_cache, feed, config, now>>
    /\ UNCHANGED aliases_file
    /\ UNCHANGED <<prompt_files, threads>>

\* BirthdayService.update_message(name, date, new_message)
UpdateMessage(name, date, new_message) ==
    /\ \E r \in {IF config.openai
                THEN update_message(generated_messages, name, date, new_message, now)
                ELSE [gm |-> generated_messages, ret |-> FALSE]} :
           /\ generated_messages' = r.gm
           /\ last' = [NoCall EXCEPT !.op = "update_message", !.name = name,
                                     !.date = date, !.text = new_message,
                                     !.ok = r.ret]
    /\ edits' = IF last'.ok THEN Put(edits, <<name, date>>, new_message) ELSE edits
    /\ prevGen' = None
    /\ UNCHANGED <<history, sent_messages, prompt_template, prompt_history,
                   aliases, birthday_cache, feed, config, now>>
    /\ UNCHANGED aliases_file
    /\ UNCHANGED <<prompt_files, threads>>

\* message_generator.delete_generated_message(name, date)
DeleteMessage(name, date) ==
    /\ config.openai
    /\ generated_messages' = delete_generated_message(generated_messages, name, date)
    /\ last' = [NoCall EXCEPT !.op = "delete_generated_message", !.name = name,
                              !.date = date]
    /\ edits' = Del(edits, <<name, date>>)
    /\ prevGen' = None
    /\ UNCHANGED <<history, sent_messages, prompt_template, prompt_history,
                   aliases, birthday_cache, feed, config, now>>
    /\ UNCHANGED aliases_file
    /\ UNCHANGED <<prompt_files, threads>>

\* BirthdayService.regenerate_message(name, date)
RegenerateMessage(name, date, outcome) ==
    /\ config.openai
    /\ \E r \in {regenerate_message(generated_messages, history, name, date, outcome)} :
           /\ generated_messages' = r.gm
           /\ history' = r.hist
           /\ last' = [NoCall EXCEPT !.op = "regenerate_message", !.name = name,
                                     !.date = date, !.regenerate = TRUE,
                                     !.ret = r.ret, !.raised = r.raised,
                                     !.calls = r.calls]
    /\ edits' = Del(edits, <<name, date>>)
    /\ prevGen' = None
    /\ UNCHANGED <<sent_messages, prompt_template, prompt_history, aliases,
                   birthday_cache, feed, config, now>>
    /\ UNCHANGED aliases_file
    /\ UNCHANGED <<prompt_files, threads>>

\* message_generator.clear_sent_tracking(name, date)
ClearSent(name, date) ==
    /\ config.openai
    /\ sent_messages' = clear_sent_tracking(sent_messages, name, date)
    /\ last' = [NoCall EXCEPT !.op = "clear_sent_tracking", !.name = name,
                              !.date = date]
    /\ UNCHANGED edits
    /\ prevGen' = None
    /\ UNCHANGED <<generated_messages, history, prompt_template, prompt_history,
                   aliases, birthday_cache, feed, config, now>>
    /\ UNCHANGED aliases_file
    /\ UNCHANGED <<prompt_files, threads>>

\* message_generator.mark_message_sent(name, date, message)
MarkSent(name, date, message) ==
    /\ config.openai
    /\ sent_messages' = mark_message_sent(sent_messages, name, date, message, now)
    /\ last' = [NoCall EXCEPT !.op = "mark_message_sent", !.name = name,
                              !.date = date, !.text = message]
    /\ UNCHANGED edits
    /\ prevGen' = None
    /\ UNCHANGED <<generated_messages, history, prompt_template, prompt_history,
                   aliases, birthday_cache, feed, config, now>>
    /\ UNCHANGED aliases_file
    /\ UNCHANGED <<prompt_files, threads>>

\* message_generator.was_message_sent_today(name, date)
WasSentToday(name, date) ==
    /\ config.openai
    /\ last' = [NoCall EXCEPT !.op = "was_message_sent_today", !.name = name,
                              !.date = date,
                              !.ok = was_message_sent_today(sent_messages, name,
                                                            date, now)]
    /\ UNCHANGED edits
    /\ prevGen' = None
    /\ UNCHANGED <<generated_messages, history, sent_messages, prompt_template,
                   prompt_history, aliases, birthday_cache, feed, config, now>>
    /\ UNCHANGED aliases_file
    /\ UNCHANGED <<prompt_files, threads>>

\* BirthdayService.get_birthday_events_for_date(target_date)
GetEvents(target_date, env) ==
    /\ \E r \in {get_birthday_events_for_date(generated_messages, history,
                                             target_date, env)} :
           /\ generated_messages' = r.gm
           /\ history' = r.hist
           /\ last' = [NoCall EXCEPT !.op = "get_birthday_events_for_date",
                                     !.date = target_date, !.events = r.events,
                                     !.steps = r.steps, !.calls = r.calls,
                                     !.failed = r.failed, !.fetched = r.fetched]
    /\ UNCHANGED edits
    /\ prevGen' = None
    /\ UNCHANGED <<sent_messages, prompt_template, prompt_history, aliases,
                   birthday_cache, feed, config, now>>
    /\ UNCHANGED aliases_file
    /\ UNCHANGED <<prompt_files, threads>>

\* BirthdayService.send_birthday_messages(target_date)
SendPass(target_date, env) ==
    /\ \E r \in {send_birthday_messages(generated_messages, history, sent_messages,
                                       target_date, env)} :
           /\ generated_messages' = r.gm
           /\ history' = r.hist
           /\ sent_messages' = r.sent
           /\ last' = [NoCall EXCEPT !.op = "send_birthday_messages",
                                     !.date = target_date, !.events = r.events,
                                     !.steps = r.steps, !.calls = r.calls,
                                     !.failed = r.failed, !.fetched = r.fetched,
                                     !.handed = r.handed,
                                     !.skipped = r.skipped,
                                     !.sent_messages = r.sent_messages]
    /\ UNCHANGED edits
    /\ prevGen' = None
    /\ UNCHANGED <<prompt_template, prompt_history, aliases, birthday_cache,
                   feed, config, now>>
    /\ UNCHANGED aliases_file
    /\ UNCHANGED <<prompt_files, threads>>

\* app.update_birthday_cache()
RefreshCache(env) ==
    /\ \E r \in {update_birthday_cache(generated_messages, history, env)} :
           /\ generated_messages' = r.gm
           /\ history' = r.hist
           /\ birthday_cache' = r.new_cache
           /\ last' = [NoCall EXCEPT !.op = "update_birthday_cache",
                                     !.steps = r.steps, !.calls = r.calls,
                                     !.events = r.events,
                                     !.resolved = r.resolved]
    /\ UNCHANGED edits
    /\ prevGen' = None
    /\ UNCHANGED <<sent_messages, prompt_template, prompt_history, aliases,
                   feed, config, now>>
    /\ UNCHANGED aliases_file
    /\ UNCHANGED <<prompt_files, threads>>

\* POST /api/prompt-template: update the template, refresh the cache on success.
ApiPromptTemplate(new_template, description, env) ==
    /\ config.openai
    /\ \E u \in {update_prompt_template(prompt_template, prompt_history,
                                        new_template, description, now)},
          c \in {update_birthday_cache(generated_messages, history, env)} :
           /\ Len(u.history) <= MaxHistory
           /\ prompt_template' = u.template
           /\ prompt_history' = u.history
           /\ prompt_files' = IF u.raised THEN prompt_files
                              ELSE write_prompt_files(u.template, u.history)
           /\ IF u.raised
              THEN /\ UNCHANGED <<generated_messages, history, birthday_cache>>
                   /\ last' = [NoCall EXCEPT !.op = "api_prompt_template",
                                             !.text = new_template, !.ok = FALSE]
              ELSE /\ generated_messages' = c.gm
                   /\ history' = c.hist
                   /\ birthday_cache' = c.new_cache
                   /\ last' = [NoCall EXCEPT !.op = "api_prompt_template",
                                             !.text = new_template, !.ok = TRUE,
                                             !.steps = c.steps, !.calls = c.calls,
                                             !.resolved = c.resolved]
    /\ UNCHANGED edits
    /\ prevGen' = None
    /\ UNCHANGED <<sent_messages, aliases, feed, config, now>>
    /\ UNCHANGED aliases_file
    /\ UNCHANGED threads

\* POST /api/activate-prompt: activate, refresh the cache on success.
ApiActivatePrompt(prompt_id, env) ==
    /\ config.openai
    /\ \E a \in {activate_prompt_from_history(prompt_template, prompt_history,
                                              prompt_id, now)},
          c \in {update_birthday_cache(generated_messages, history, env)} :
           /\ Len(a.history) <= MaxHistory
           /\ prompt_template' = a.template
           /\ prompt_history' = a.history
           /\ prompt_files' = IF a.ret /\ prompt_id # "current"
                              THEN write_prompt_files(a.template, a.history)
                              ELSE prompt_files
           /\ IF ~a.ret
              THEN /\ UNCHANGED <<generated_messages, history, birthday_cache>>
                   /\ last' = [NoCall EXCEPT !.op = "api_activate_prompt",
                                             !.text = <<prompt_id>>, !.ok = FALSE]
              ELSE /\ generated_messages' = c.gm
                   /\ history' = c.hist
                   /\ birthday_cache' = c.new_cache
                   /\ last' = [NoCall EXCEPT !.op = "api_activate_prompt",
                                             !.text = <<prompt_id>>, !.ok = TRUE,
                                             !.steps = c.steps, !.calls = c.calls,
                                             !.resolved = c.resolved]
    /\ UNCHANGED edits
    /\ prevGen' = None
    /\ UNCHANGED <<sent_messages, aliases, feed, config, now>>
    /\ UNCHANGED aliases_file
    /\ UNCHANGED threads

\* BirthdayService.update_prompt_template(new_template, description): False
\* without a message generator or when the generator raises.
UpdatePromptTemplate(new_template, description) ==
    /\ \E u \in {IF config.openai
                 THEN update_prompt_template(prompt_template, prompt_history,
                                             new_template, description, now)
                 ELSE [template |-> prompt_template, history |-> prompt_history,
                       raised |-> TRUE]} :
           /\ Len(u.history) <= MaxPromptEntries
           /\ prompt_template' = u.template
           /\ prompt_history' = u.history
           /\ prompt_files' = IF u.raised THEN prompt_files
                              ELSE write_prompt_files(u.template, u.history)
           /\ last' = [NoCall EXCEPT !.op = "update_prompt_template",
                                     !.text = new_template, !.ok = ~u.raised]
    /\ UNCHANGED edits
    /\ prevGen' = None
    /\ UNCHANGED <<generated_messages, history, sent_messages, aliases,
                   birthday_cache, feed, config, now>>
    /\ UNCHANGED aliases_file
    /\ UNCHANGED threads

\* BirthdayService.activate_prompt_from_history(prompt_id): False without a
\* message generator.
ActivatePrompt(prompt_id) ==
    /\ \E a \in {IF config.openai
                 THEN activate_prompt_from_history(prompt_template, prompt_history,
                                                   prompt_id, now)
                 ELSE [template |-> prompt_template, history |-> prompt_history,
                       ret |-> FALSE]} :
           /\ Len(a.history) <= MaxPromptEntries
           /\ prompt_template' = a.template
           /\ prompt_history' = a.history
           /\ prompt_files' = IF a.ret /\ prompt_id # "current"
                              THEN write_prompt_files(a.template, a.history)
                              ELSE prompt_files
           /\ last' = [NoCall EXCEPT !.op = "activate_prompt_from_history",
                                     !.text = <<prompt_id>>, !.ok = a.ret]
    /\ UNCHANGED edits
    /\ prevGen' = None
    /\ UNCHANGED <<generated_messages, history, sent_messages, aliases,
                   birthday_cache, feed, config, now>>
    /\ UNCHANGED aliases_file
    /\ UNCHANGED threads

\* alias_manager.add_alias(calendar_name, display_name, notes)
AddAlias(calendar_name, display_name, notes, written) ==
    /\ \E r \in {add_alias(aliases, calendar_name, display_name, notes, now)} :
           /\ aliases' = r.aliases
           /\ aliases_file' = IF r.raised THEN aliases_file
                              ELSE save_aliases(aliases_file, r.aliases, written)
           /\ last' = [NoCall EXCEPT !.op = "add_alias", !.name = calendar_name,
                                     !.text = display_name, !.ret = r.ret,
                                     !.raised = r.raised, !.ok = ~r.raised,
                                     !.shares = r.shares]
    /\ UNCHANGED edits
    /\ prevGen' = None
    /\ UNCHANGED <<generated_messages, history, sent_messages, prompt_template,
                   prompt_history, birthday_cache, feed, config, now>>
    /\ UNCHANGED <<prompt_files, threads>>

\* alias_manager.update_alias(calendar_name, display_name, notes)
UpdateAlias(calendar_name, display_name, notes, written) ==
    /\ \E r \in {update_alias(aliases, calendar_name, display_name, notes)} :
           /\ aliases' = r.aliases
           /\ aliases_file' = IF r.ret = None THEN aliases_file
                              ELSE save_aliases(aliases_file, r.aliases, written)
           /\ last' = [NoCall EXCEPT !.op = "update_alias", !.name = calendar_name,
                                     !.text = display_name, !.ret = r.ret,
                                     !.ok = r.ret # None, !.shares = r.shares,
                                     !.notes = notes]
    /\ UNCHANGED edits
    /\ prevGen' = None
    /\ UNCHANGED <<generated_messages, history, sent_messages, prompt_template,
                   prompt_history, birthday_cache, feed, config, now>>
    /\ UNCHANGED <<prompt_files, threads>>

\* alias_manager.delete_alias(calendar_name)
DeleteAlias(calendar_name, written) ==
    /\ \E r \in {delete_alias(aliases, calendar_name)} :
           /\ aliases' = r.aliases
           /\ aliases_file' = IF ~r.ret THEN aliases_file
                              ELSE save_aliases(aliases_file, r.aliases, written)
           /\ last' = [NoCall EXCEPT !.op = "delete_alias", !.name = calendar_name,
                                     !.ok = r.ret]
    /\ UNCHANGED edits
    /\ prevGen' = None
    /\ UNCHANGED <<generated_messages, history, sent_messages, prompt_template,
                   prompt_history, birthday_cache, feed, config, now>>
    /\ UNCHANGED <<prompt_files, threads>>

\* alias_manager.get_alias(calendar_name)
GetAlias(calendar_name) ==
    /\ \E r \in {get_alias(aliases, calendar_name)} :
           last' = [NoCall EXCEPT !.op = "get_alias", !.name = calendar_name,
                                  !.ret = r.ret, !.ok = r.ret # None,
                                  !.shares = r.shares]
    /\ UNCHANGED edits
    /\ prevGen' = None
    /\ UNCHANGED <<generated_messages, history, sent_messages, prompt_template,
                   prompt_history, aliases, aliases_file, birthday_cache, feed,
                   config, now>>
    /\ UNCHANGED <<prompt_files, threads>>

\* alias_manager.get_all_aliases(): the caller keeps the record of
\* calendar_name out of the returned dict.
GetAllAliases(calendar_name) ==
    /\ calendar_name \in DOMAIN aliases
    /\ \E r \in {get_all_aliases(aliases)} :
           last' = [NoCall EXCEPT !.op = "get_all_aliases", !.name = calendar_name,
                                  !.ret = Some(r.ret[calendar_name]), !.ok = TRUE,
                                  !.shares = r.shares]
    /\ UNCHANGED edits
    /\ prevGen' = None
    /\ UNCHANGED <<generated_messages, history, sent_messages, prompt_template,
                   prompt_history, aliases, aliases_file, birthday_cache, feed,
                   config, now>>
    /\ UNCHANGED <<prompt_files, threads>>

\* alias_manager.get_ldap_uid(calendar_name)
GetLdapUid(calendar_name) ==
    /\ last' = [NoCall EXCEPT !.op = "get_ldap_uid", !.name = calendar_name,
                              !.text = get_ldap_uid(aliases, calendar_name)]
    /\ UNCHANGED edits
    /\ prevGen' = None
    /\ UNCHANGED <<generated_messages, history, sent_messages, prompt_template,
                   prompt_history, aliases, aliases_file, birthday_cache, feed,
                   config, now>>
    /\ UNCHANGED <<prompt_files, threads>>

\* The caller of the last call assigns to a field of the record it was
\* handed: record[field] = value.  The assignment reaches the stored dict
\* when the record is that dict.
MutateReturned(field, value) ==
    /\ last.op \in {"add_alias", "update_alias", "get_alias", "get_all_aliases",
                    "mutate_returned"}
    /\ last.ret # None
    /\ last.ret[1][field] # value
    /\ aliases' = IF last.shares # None /\ last.shares[1] \in DOMAIN aliases
                  THEN [aliases EXCEPT ![last.shares[1]][field] = value]
                  ELSE aliases
    /\ last' = [last EXCEPT !.op = "mutate_returned",
                            !.ret = Some([last.ret[1] EXCEPT ![field] = value])]
    /\ UNCHANGED edits
    /\ prevGen' = None
    /\ UNCHANGED <<generated_messages, history, sent_messages, prompt_template,
                   prompt_history, aliases_file, birthday_cache, feed, config, now>>
    /\ UNCHANGED <<prompt_files, threads>>

\* The ids a client may ask to activate.
PromptIds == {"current", "1", "2", "9"}

\* Display names given to aliases.
DisplayNames == {NameAB, <<"D">>}

\* ------------------------------------------------------------ the threads
\* The BackgroundScheduler runs its jobs, and the web server its request
\* handlers, in threads of their own.  A thread is a record of its position
\* and of the local variables of update_birthday_cache; it stays, finished,
\* in `threads` when it has returned.  A step of a thread runs up to the next
\* point where it waits for the backend or for the cache lock.
Jobs == {"cache_update", "daily_birthday_check"}
Handlers == {"api_update_message"}

\* A thread entering update_birthday_cache.
NewThread(job) ==
    [job |-> job, pc |-> "begin", current_date |-> 0, end_date |-> 0, i |-> 1,
     events |-> <<>>, new_cache |-> EmptyDict, installed |-> FALSE,
     failed |-> FALSE]

\* Where a thread goes when update_birthday_cache has returned: the daily job
\* goes on to send (app.py 100), the others return.
AfterRefresh(job) == IF job = "daily_birthday_check" THEN "send" ELSE "done"

\* app.py 60-68: the window is computed and new_cache = {}; when int() raises,
\* the except branch of 82-83 logs and the function returns.
refresh_begin(th) ==
    IF ~config.look_ahead_valid
    THEN [th EXCEPT !.pc = AfterRefresh(th.job), !.failed = TRUE]
    ELSE [th EXCEPT !.current_date = Today,
                    !.end_date = Today + config.look_ahead_days,
                    !.new_cache = EmptyDict,
                    !.pc = IF Today > Today + config.look_ahead_days
                           THEN "install" ELSE "walk"]

\* The first birthday of target_date among the components i, i+1, ... of the
\* calendar; Len(feed) + 1 when there is none.
NextComponent(i, target_date) ==
    IF \E k \in i..Len(feed) : IsBirthdayOn(k, target_date)
    THEN CHOOSE k \in i..Len(feed) :
            /\ IsBirthdayOn(k, target_date)
            /\ \A j \in i..(k - 1) : ~IsBirthdayOn(j, target_date)
    ELSE Len(feed) + 1

\* service.py 84-93: the event of component i, appended to the events of the
\* date the thread is resolving.
emit_event(th, i, ldap_valid, message_data) ==
    LET full_name == Strip(SplitFirst(feed[i].summary, "-"))
        event_data == [name |-> full_name,
                       summary |-> feed[i].summary,
                       date |-> th.current_date,
                       ldap_valid |-> ldap_valid,
                       will_send |-> ldap_valid,
                       message |-> event_message(full_name, ldap_valid, message_data),
                       message_data |-> message_data]
    IN  [th EXCEPT !.events = Append(@, event_data), !.i = i + 1]

\* app.py 71-77 with a slip: the events of the date are put into the global
\* birthday_cache as well as into new_cache.
finish_date_writing_through(th, cache) ==
    LET filled == IF th.events # <<>>
                  THEN Put(th.new_cache, th.current_date, th.events)
                  ELSE th.new_cache
    IN  [thread |-> [th EXCEPT !.new_cache = filled, !.events = <<>>, !.i = 1,
                               !.current_date = @ + 1,
                               !.pc = IF th.current_date + 1 > th.end_date
                                      THEN "install" ELSE "walk"],
         cache |-> IF th.events # <<>>
                   THEN Put(cache, th.current_date, th.events)
                   ELSE cache]

\* app.py 71-77: get_birthday_events_for_date has returned the events of
\* current_date; a non-empty list goes into the local new_cache, the global
\* birthday_cache stays as it is, and the loop goes on to the next date.
finish_date(th, cache) ==
    LET filled == IF th.events # <<>>
                  THEN Put(th.new_cache, th.current_date, th.events)
                  ELSE th.new_cache
    IN  [thread |-> [th EXCEPT !.new_cache = filled, !.events = <<>>, !.i = 1,
                               !.current_date = @ + 1,
                               !.pc = IF th.current_date + 1 > th.end_date
                                      THEN "install" ELSE "walk"],
         cache |-> cache]

\* get_birthday_events_for_date(current_date) from component i on, up to the
\* next event: the directory is asked, and generate_message looks the key up
\* (message_generator.py 214): a stored record is returned at once, a
\* template that does not format raises, and otherwise the thread calls the
\* backend (235) and waits for its answer.
refresh_walk(th, gm, cache, ldap) ==
    LET i == NextComponent(th.i, th.current_date)
        full_name == Strip(SplitFirst(feed[i].summary, "-"))
        ldap_valid == verify_person_in_ldap(full_name, ldap)
        message_key == <<full_name, th.current_date>>
    IN  IF i > Len(feed) THEN finish_date(th, cache)
        ELSE [thread |->
                 IF ~wants_message(ldap_valid)
                 THEN emit_event(th, i, ldap_valid, None)
                 ELSE IF message_key \in DOMAIN gm
                 THEN emit_event(th, i, ldap_valid, Some(gm[message_key]))
                 ELSE IF FormatRaises(prompt_template)
                 THEN emit_event(th, i, ldap_valid, None)
                 ELSE [th EXCEPT !.i = i, !.pc = "backend"],
              cache |-> cache]

\* message_generator.py 233-295 for the component the thread waits for: the
\* backend has answered or failed; the record is stored under the key,
\* whatever the store holds for it by now, and the event is emitted.
refresh_backend(th, gm, hist, outcome) ==
    LET full_name == Strip(SplitFirst(feed[th.i].summary, "-")) IN
    With(generate_message_from(gm, hist, prompt_template, full_name,
                               th.current_date, FALSE, outcome, now, FALSE),
         LAMBDA gen : [thread |-> [emit_event(th, th.i, TRUE, gen.ret)
                                       EXCEPT !.pc = "walk"],
                       gm |-> gen.gm, hist |-> gen.hist])

\* api_birthdays: the cache as the dashboard is given it.
formatted_data(cache) ==
    [d \in DOMAIN cache |-> [date |-> d, day_of_week |-> d % 7, events |-> cache[d]]]

\* The scheduler starts a job.
StartJob(job) ==
    /\ job \notin DOMAIN threads
    /\ threads' = Put(threads, job, NewThread(job))
    /\ UNCHANGED <<generated_messages, history, sent_messages, prompt_template,
                   prompt_history, aliases, aliases_file, prompt_files,
                   birthday_cache, feed, config, now, last, edits, prevGen>>

\* POST /api/update-message up to its call of update_birthday_cache: the text
\* is stripped and the stored message updated.
HandleUpdate(handler, name, date, text) ==
    /\ handler \notin DOMAIN threads
    /\ Strip(text) # <<>>
    /\ \E r \in {IF config.openai
                 THEN update_message(generated_messages, name, date, Strip(text), now)
                 ELSE [gm |-> generated_messages, ret |-> FALSE]} :
           /\ generated_messages' = r.gm
           /\ last' = [NoCall EXCEPT !.op = "api_update_message", !.name = name,
                                     !.date = date, !.text = Strip(text),
                                     !.ok = r.ret]
           /\ edits' = IF r.ret THEN Put(edits, <<name, date>>, Strip(text)) ELSE edits
           /\ threads' = Put(threads, handler,
                             IF r.ret THEN NewThread(handler)
                             ELSE [NewThread(handler) EXCEPT !.pc = "done"])
    /\ prevGen' = None
    /\ UNCHANGED <<history, sent_messages, prompt_template, prompt_history,
                   aliases, aliases_file, prompt_files, birthday_cache, feed,
                   config, now>>

\* A thread enters update_birthday_cache.
RefreshBegin(t) ==
    /\ t \in DOMAIN threads
    /\ threads[t].pc = "begin"
    /\ threads' = [threads EXCEPT ![t] = refresh_begin(@)]
    /\ UNCHANGED <<generated_messages, history, sent_messages, prompt_template,
                   prompt_history, aliases, aliases_file, prompt_files,
                   birthday_cache, feed, config, now, last, edits, prevGen>>

\* A thread resolves up to the next event of its date, or finishes the date.
RefreshWalk(t, ldap) ==
    /\ t \in DOMAIN threads
    /\ threads[t].pc = "walk"
    /\ \E r \in {refresh_walk(threads[t], generated_messages, birthday_cache, ldap)} :
           /\ threads' = [threads EXCEPT ![t] = r.thread]
           /\ birthday_cache' = r.cache
    /\ UNCHANGED <<generated_messages, history, sent_messages, prompt_template,
                   prompt_history, aliases, aliases_file, prompt_files,
                   feed, config, now, last, edits, prevGen>>

\* The backend call of a thread returns.
RefreshBackend(t, outcome) ==
    /\ t \in DOMAIN threads
    /\ threads[t].pc = "backend"
    /\ \E r \in {refresh_backend(threads[t], generated_messages, history, outcome)} :
           /\ threads' = [threads EXCEPT ![t] = r.thread]
           /\ generated_messages' = r.gm
           /\ history' = r.hist
    /\ UNCHANGED <<sent_messages, prompt_template, prompt_history, aliases,
                   aliases_file, prompt_files, birthday_cache, feed, config,
                   now, last, edits, prevGen>>

\* app.py 79-80: under cache_lock the thread makes its new_cache the cache.
RefreshInstall(t) ==
    /\ t \in DOMAIN threads
    /\ threads[t].pc = "install"
    /\ birthday_cache' = threads[t].new_cache
    /\ threads' = [threads EXCEPT ![t].pc = AfterRefresh(threads[t].job),
                                  ![t].installed = TRUE]
    /\ UNCHANGED <<generated_messages, history, sent_messages, prompt_template,
                   prompt_history, aliases, aliases_file, prompt_files,
                   feed, config, now, last, edits, prevGen>>

\* app.py 100: the daily job sends today's messages after its refresh.
DailySend(t, env) ==
    /\ t \in DOMAIN threads
    /\ threads[t].pc = "send"
    /\ \E r \in {send_birthday_messages(generated_messages, history, sent_messages,
                                       Today, env)} :
           /\ generated_messages' = r.gm
           /\ history' = r.hist
           /\ sent_messages' = r.sent
    /\ threads' = [threads EXCEPT ![t].pc = "done"]
    /\ UNCHANGED <<prompt_template, prompt_history, aliases, aliases_file,
                   prompt_files, birthday_cache, feed, config, now, last, edits,
                   prevGen>>

\* GET /api/birthdays: the cache is read under cache_lock.
ReadCache ==
    /\ last' = [NoCall EXCEPT !.op = "api_birthdays",
                              !.ret = Some(formatted_data(birthday_cache))]
    /\ prevGen' = None
    /\ UNCHANGED <<generated_messages, history, sent_messages, prompt_template,
                   prompt_history, aliases, aliases_file, prompt_files,
                   birthday_cache, feed, config, now, edits, threads>>

\* ------------------------------------------------------- the message store
\* The MessageGenerator alone, called by its owner one call at a time.
\* The keys and backend answers of these runs.
StoreDates == {0}
StoreOutcomes == {None, Some(RespMoon), Some(RespPlain)}

StoreNext ==
    \/ Tick
    \/ \E name \in Names, date \in StoreDates, regenerate \in BOOLEAN, outcome \in StoreOutcomes :
          GenerateMessage(name, date, regenerate, outcome)
    \/ \E name \in Names, date \in StoreDates, text \in EditTexts :
          UpdateMessage(name, date, text)
    \/ \E name \in Names, date \in StoreDates :
          DeleteMessage(name, date)

StoreInit ==
    Constructed(<<EventAB0, EventC0>>, Config(TRUE, TRUE, TRUE))

StoreSpec == StoreInit /\ [][StoreNext]_vars

\* The keys of the message store.
StoredKeys == DOMAIN generated_messages

\* ------------------------------------------------------------ the send pass
\* The service sending and resolving, one call at a time, while time passes.
SendOutcomes == {None, Some(RespPlain), Some(RespBlank)}

\* The calendars and the dates of these runs.
SendFeeds == {<<EventAB0, EventC0>>, <<EventAB0, EventAB0>>}
SendDates == {0}

SendNext ==
    \/ Tick
    \/ \E date \in SendDates :
          \E env \in Envs({date}, LdapOutcomes, SendOutcomes, BOOLEAN, {{}, {date}}, StoredKeys) : SendPass(date, env)
    \/ \E name \in Names, date \in SendDates : ClearSent(name, date)

SendInit ==
    \E calendar \in SendFeeds, environment \in Configs : Constructed(calendar, environment)

SendSpec == SendInit /\ [][SendNext]_vars

\* ------------------------------------------------------- resolving events
\* The service resolving the events of a date while aliases are registered.
EventsOutcomes == {None, Some(RespMoon)}

\* The notes given to an alias.
AliasNotes == {<<"nickname">>}

EventsNext ==
    \/ \E date \in Dates :
          \E env \in Envs({date}, LdapOutcomes, EventsOutcomes, {TRUE}, {{}, {date}}, StoredKeys) : GetEvents(date, env)
    \/ \E calendar_name \in Names, display_name \in DisplayNames, notes \in AliasNotes :
          \E written \in WriteOutcomes : AddAlias(calendar_name, display_name, notes, written)

EventsSpec == Init /\ [][EventsNext]_vars

\* ------------------------------------------------------------ the whole bot
\* The store, the prompt, the cache and the send pass driven together, as the
\* web interface and the scheduler drive them, one call at a time.
BotDates == {0}
BotNames == {NameAB}
BotLdaps == {"found", "notfound"}
BotOutcomes == {Some(RespPlain)}
BotTemplates == {TemplateNew, TemplateStray}
BotDescriptions == {<<"new">>}

\* What the collaborators do during a refresh of the cache.
BotEnvs == Envs(Today..(Today + config.look_ahead_days), BotLdaps, BotOutcomes, {TRUE}, {{}}, {})

Next ==
    \/ \E name \in BotNames, date \in BotDates, outcome \in BotOutcomes :
          GenerateMessage(name, date, TRUE, outcome)
    \/ \E name \in BotNames, date \in BotDates, text \in EditTexts :
          UpdateMessage(name, date, text)
    \/ \E name \in BotNames, date \in BotDates :
          DeleteMessage(name, date)
    \/ \E name \in BotNames, date \in BotDates, outcome \in BotOutcomes :
          RegenerateMessage(name, date, outcome)
    \/ \E date \in BotDates :
          \E env \in Envs({date}, BotLdaps, BotOutcomes, {TRUE}, {{}}, {}) : GetEvents(date, env)
    \/ \E date \in BotDates :
          \E env \in Envs({date}, BotLdaps, BotOutcomes, BOOLEAN, {{}}, {}) : SendPass(date, env)
    \/ \E env \in BotEnvs : RefreshCache(env)
    \/ \E new_template \in BotTemplates, description \in BotDescriptions :
          \E env \in BotEnvs : ApiPromptTemplate(new_template, description, env)
    \/ \E prompt_id \in PromptIds :
          \E env \in BotEnvs : ApiActivatePrompt(prompt_id, env)

BotInit ==
    Constructed(<<EventAB0>>,
                [Config(TRUE, TRUE, TRUE) EXCEPT !.look_ahead_days = BotLookAhead])

Spec == BotInit /\ [][Next]_vars

\* ------------------------------------------------------- the sent tracking
\* The sent tracking of the MessageGenerator alone, while time passes.
TrackTexts == {<<"hb">>}

TrackNext ==
    \/ HalfTick
    \/ \E name \in Names, date \in Dates, message \in TrackTexts :
          MarkSent(name, date, message)
    \/ \E name \in Names, date \in Dates : WasSentToday(name, date)
    \/ \E name \in Names, date \in Dates : ClearSent(name, date)

TrackSpec == StoreInit /\ [][TrackNext]_vars

\* ------------------------------------------------------ the prompt template
\* The prompt template and its history alone, updated and reactivated through
\* the service while time passes.
PromptDescriptions == {<<>>, <<"tuned">>}

PromptNext ==
    \/ Tick
    \/ \E new_template \in Templates, description \in PromptDescriptions :
          UpdatePromptTemplate(new_template, description)
    \/ \E prompt_id \in PromptIds : ActivatePrompt(prompt_id)

PromptSpec == StoreInit /\ [][PromptNext]_vars

\* ------------------------------------------------------- the alias manager
\* The AliasManager alone: aliases are registered, updated, removed and read,
\* the records handed out are written to by their holders, and time passes.
\* The calendar names, with and without white space around them.
AliasRawNames == {NameAB, <<" ", "C", " ", "D", "\t">>}

\* The display names given.
AliasDisplayNames == {NameAB, <<"\t", "D", " ">>}

\* Notes given on registration ("" is the default) and on update (None is
\* the default).
AddNotes == {<<>>, <<"nickname">>}
UpdateNotes == {None, Some(<<"lead">>)}

\* What the holder of a record assigns to its fields.
HolderFields == {"display_name", "notes"}
HolderTexts == {<<"Modified">>}

\* In these runs every write of aliases.json succeeds.
AliasNext ==
    \/ Tick
    \/ \E calendar_name \in AliasRawNames, display_name \in AliasDisplayNames,
          notes \in AddNotes :
          AddAlias(calendar_name, display_name, notes, "written")
    \/ \E calendar_name \in AliasRawNames, display_name \in AliasDisplayNames,
          notes \in UpdateNotes :
          UpdateAlias(calendar_name, display_name, notes, "written")
    \/ \E calendar_name \in AliasRawNames : DeleteAlias(calendar_name, "written")
    \/ \E calendar_name \in AliasRawNames : GetAlias(calendar_name)
    \/ \E calendar_name \in AliasRawNames : GetAllAliases(calendar_name)
    \/ \E calendar_name \in AliasRawNames : GetLdapUid(calendar_name)
    \/ \E field \in HolderFields, value \in HolderTexts : MutateReturned(field, value)

AliasSpec == StoreInit /\ [][AliasNext]_vars

\* ------------------------------------------------------ the aliases on disk
\* The AliasManager and its file: every write may succeed, be refused, or
\* leave a torn file.
PersistDisplayNames == {<<"D">>, <<"E">>}
PersistNotes == {<<"nickname">>}

PersistNext ==
    \/ \E calendar_name \in AliasRawNames, display_name \in PersistDisplayNames,
          notes \in PersistNotes, written \in WriteOutcomes :
          AddAlias(calendar_name, display_name, notes, written)
    \/ \E calendar_name \in AliasRawNames, display_name \in PersistDisplayNames,
          written \in WriteOutcomes :
          UpdateAlias(calendar_name, display_name, None, written)
    \/ \E calendar_name \in AliasRawNames, written \in WriteOutcomes :
          DeleteAlias(calendar_name, written)

PersistSpec == StoreInit /\ [][PersistNext]_vars

\* -------------------------------------------------------- the fact history
\* The MessageGenerator generating and regenerating while the prompt template
\* is changed: the backend answers with one of two facts, with no fact, or
\* fails.
FactOutcomes == {None, Some(RespMoon), Some(RespSun), Some(RespPlain)}
FactDates == {0}
FactTemplates == {TemplateNew, TemplateStray}

FactNext ==
    \/ \E name \in Names, date \in FactDates, regenerate \in BOOLEAN, outcome \in FactOutcomes :
          GenerateMessage(name, date, regenerate, outcome)
    \/ \E new_template \in FactTemplates :
          UpdatePromptTemplate(new_template, <<>>)

FactSpec == StoreInit /\ [][FactNext]_vars

\* ------------------------------------------------------------ regeneration
\* The store generated for, edited and regenerated, through the generator
\* and through the service, while the prompt template is changed; the backend
\* answers or fails.
RegenOutcomes == {None, Some(RespPlain)}
RegenDates == {0}

RegenNext ==
    \/ \E name \in Names, date \in RegenDates, regenerate \in BOOLEAN, outcome \in RegenOutcomes :
          GenerateMessage(name, date, regenerate, outcome)
    \/ \E name \in Names, date \in RegenDates, text \in EditTexts :
          UpdateMessage(name, date, text)
    \/ \E name \in Names, date \in RegenDates, outcome \in RegenOutcomes :
          RegenerateMessage(name, date, outcome)
    \/ \E new_template \in FactTemplates :
          UpdatePromptTemplate(new_template, <<>>)

RegenSpec == StoreInit /\ [][RegenNext]_vars

\* ------------------------------------------------------ edits and sending
\* Stored messages edited by hand, also to the empty text, and regenerated,
\* between send passes.
EditSendTexts == EditTexts \cup {<<>>}
EditNames == {NameC}

EditNext ==
    \/ Tick
    \/ \E date \in SendDates :
          \E env \in Envs({date}, LdapOutcomes, RegenOutcomes, BOOLEAN, {{}, {date}}, StoredKeys) : SendPass(date, env)
    \/ \E name \in EditNames, date \in SendDates, text \in EditSendTexts :
          UpdateMessage(name, date, text)
    \/ \E name \in EditNames, date \in SendDates, outcome \in RegenOutcomes :
          RegenerateMessage(name, date, outcome)
    \/ \E name \in EditNames, date \in SendDates : ClearSent(name, date)

\* A calendar with the person entered twice; backend and webhook configured.
EditInit == Constructed(<<EventC0, EventC0>>, Config(TRUE, TRUE, TRUE))

EditSpec == EditInit /\ [][EditNext]_vars

\* ------------------------------------------------ the message of an event
\* Events resolved with and without a backend, the backend answering or
\* failing, while stored messages are edited and the prompt template changed.
MessageNext ==
    \/ \E date \in SendDates :
          \E env \in Envs({date}, LdapOutcomes, RegenOutcomes, {TRUE}, {{}, {date}}, StoredKeys) : GetEvents(date, env)
    \/ \E name \in Names, date \in SendDates, text \in EditTexts :
          UpdateMessage(name, date, text)
    \/ \E new_template \in FactTemplates :
          UpdatePromptTemplate(new_template, <<>>)

MessageSpec == SendInit /\ [][MessageNext]_vars

\* ------------------------------------------------- the look-ahead window
\* The cache refreshed with the settings of an empty environment, on
\* successive days, the download of the calendar failing for some dates.
WindowDownloads == {{}, {0}}

\* The number of resolutions test_update_birthday_cache_success expects of a
\* refresh with no BIRTHDAY_LOOK_AHEAD_DAYS set.
ExpectedResolutions == 22

WindowNext ==
    \/ Tick
    \/ \E env \in Envs(Today..(Today + config.look_ahead_days), LdapOutcomes,
                       RegenOutcomes, {TRUE}, WindowDownloads, StoredKeys) :
          RefreshCache(env)

WindowSpec == Init /\ [][WindowNext]_vars

\* ------------------------------------------- the prompt files on the disk
\* The prompt template updated, also to a text with white space at its end as
\* a text area sends it, and reactivated, while time passes.
TemplatePadded == <<"Write to", "{employee_name}", "{birthday_date}", " ">>
ReloadTemplates == {TemplateNew, TemplatePadded, TemplateNoName}

ReloadNext ==
    \/ Tick
    \/ \E new_template \in ReloadTemplates, description \in PromptDescriptions :
          UpdatePromptTemplate(new_template, description)
    \/ \E prompt_id \in PromptIds : ActivatePrompt(prompt_id)

ReloadSpec == StoreInit /\ [][ReloadNext]_vars

\* ---------------------------------------------- refreshes running at once
\* The two scheduler jobs and an update request running at the same time,
\* while the dashboard reads the cache.
RaceLdaps == {"found"}
RaceOutcomes == {Some(RespPlain)}

RaceNext ==
    \/ \E job \in Jobs : StartJob(job)
    \/ \E handler \in Handlers, text \in EditTexts : HandleUpdate(handler, NameAB, 0, text)
    \/ \E t \in Jobs \cup Handlers : RefreshBegin(t)
    \/ \E t \in Jobs \cup Handlers, ldap \in RaceLdaps : RefreshWalk(t, ldap)
    \/ \E t \in Jobs \cup Handlers, outcome \in RaceOutcomes : RefreshBackend(t, outcome)
    \/ \E t \in Jobs \cup Handlers : RefreshInstall(t)
    \/ \E t \in Jobs :
          \E env \in Envs({Today}, RaceLdaps, RaceOutcomes, {TRUE}, {{}}, StoredKeys) :
              DailySend(t, env)
    \/ ReadCache

\* A birthday today and one tomorrow; BIRTHDAY_LOOK_AHEAD_DAYS a small number,
\* or not a number.
RaceInit ==
    \E valid \in BOOLEAN :
        Constructed(<<EventAB0, EventC1>>,
                    [Config(TRUE, TRUE, TRUE) EXCEPT !.look_ahead_days = BotLookAhead,
                                                     !.look_ahead_valid = valid])

RaceSpec == RaceInit /\ [][RaceNext]_vars

\* The key of the last call.
LastKey == <<last.name, last.date>>

\* C1 (as claimed): two consecutive generate_message calls without regenerate
\* for the same key, with nothing in between, return identical records and
\* invoke the generative backend at most once in total, whatever the backend
\* does.
C1_TwoCallsOneGeneration ==
    (last.op = "generate_message" /\ ~last.regenerate /\ prevGen # None)
    => /\ last.ret = prevGen[1].ret
       /\ last.raised = prevGen[1].raised
       /\ Len(last.calls) + prevGen[1].calls <= 1

\* C2 (as claimed): when the backend fails inside generate_message, the call
\* returns a fallback record (fallback flag, error text, a message with the
\* name and the celebratory phrase) and stores it under the key, so that
\* get_generated_message returns that record.
C2_FallbackReturnedAndStored ==
    (last.op = "generate_message" /\ last.calls # <<>> /\ last.ret # None
     /\ Get(last.ret[1], "fallback", FALSE))
    => /\ Get(last.ret[1], "error", "") # ""
       /\ last.ret[1].message = FallbackMessage(last.name)
       /\ get_generated_message(generated_messages, last.name, last.date) = last.ret

\* C3: once update_message has returned true for a key, a generate_message
\* call without regenerate for that key returns a record whose message is the
\* edited text, with the manual-edit flag set, and invokes no backend (as long
\* as the key is neither deleted nor regenerated).
C3_EditServedWithoutBackend ==
    (last.op = "generate_message" /\ ~last.regenerate /\ LastKey \in DOMAIN edits)
    => /\ last.ret # None
       /\ last.ret[1].message = edits[LastKey]
       /\ Get(last.ret[1], "manually_edited", FALSE)
       /\ last.calls = <<>>
       /\ ~last.raised

\* C3 witness: such a call has returned the edited text.
C3_Witness ==
    /\ last.op = "generate_message" /\ ~last.regenerate
    /\ LastKey \in DOMAIN edits
    /\ last.ret = Some(generated_messages[LastKey])
    /\ last.ret[1].message \in EditTexts

\* The events of the last pass that were handed to send_slack_message.
HandedEvents == {last.handed[k].event : k \in 1..Len(last.handed)}

C6_RecordOnlyWhenPosted ==
    [][last'.op = "send_birthday_messages" =>
        \A key \in DOMAIN sent_messages' :
            (key \notin DOMAIN sent_messages \/ sent_messages'[key] # sent_messages[key])
            => \E k \in 1..Len(last'.handed) :
                  /\ <<last'.handed[k].name, last'.handed[k].date>> = key
                  /\ last'.handed[k].posted]_vars

\* C7: a delivery that raises does not end the pass: every later event that
\* is send-eligible with a non-empty message is still suppressed or handed
\* over, a key whose deliveries all raised keeps the sent tracking it had, the
\* returned list holds exactly the messages of the deliveries that did not
\* raise, and the pass returns.
C7_FailureDoesNotAbort ==
    [][(last'.op = "send_birthday_messages"
        /\ \E k \in 1..Len(last'.handed) : last'.handed[k].raised) =>
        /\ \A k \in 1..Len(last'.handed) :
              last'.handed[k].raised =>
                 \A j \in (last'.handed[k].event + 1)..Len(last'.events) :
                    (last'.events[j].will_send /\ Truthy(last'.events[j].message))
                    => \/ \E m \in 1..Len(last'.handed) : last'.handed[m].event = j
                       \/ \E m \in 1..Len(last'.skipped) : last'.skipped[m] = j
        /\ \A k \in 1..Len(last'.handed) :
              LET key == <<last'.handed[k].name, last'.handed[k].date>>
              IN  (\A m \in 1..Len(last'.handed) :
                      <<last'.handed[m].name, last'.handed[m].date>> = key
                      => last'.handed[m].raised)
                  => /\ (key \in DOMAIN sent_messages') = (key \in DOMAIN sent_messages)
                     /\ key \in DOMAIN sent_messages
                        => sent_messages'[key] = sent_messages[key]
        /\ LET kept == SelectSeq(last'.handed, LAMBDA a : ~a.raised)
           IN  last'.sent_messages = [m \in 1..Len(kept) |-> kept[m].message]
        /\ ~last'.raised]_vars

\* C7 witness: a pass in which the first delivery raised and a later one
\* succeeded and was marked.
C7_Witness ==
    /\ last.op = "send_birthday_messages"
    /\ Len(last.handed) = 2
    /\ last.handed[1].raised /\ last.handed[2].posted
    /\ last.handed[1].name # last.handed[2].name
    /\ <<last.handed[1].name, last.date>> \notin DOMAIN sent_messages
    /\ <<last.handed[2].name, last.date>> \in DOMAIN sent_messages
    /\ Len(last.sent_messages) = 1

\* C8: a look-up whose connection fails counts as not a member, without
\* raising; in a send pass a message is handed over only for an event whose
\* look-up in that pass found an entry; and for a component whose look-up did
\* not, the backend is not invoked and the store is not accessed, so that a
\* key no look-up of the pass vouches for is stored as it was.
C8_FailClosed ==
    [][last'.op = "send_birthday_messages" =>
        /\ \A j \in 1..Len(last'.events) :
              /\ last'.steps[j].ldap = "error" => ~last'.events[j].ldap_valid
              /\ last'.steps[j].ldap # "found" =>
                    /\ ~last'.events[j].will_send
                    /\ last'.events[j].message = None
                    /\ last'.steps[j].calls = 0
                    /\ last'.steps[j].store_key = None
                    /\ \A k \in 1..Len(last'.handed) : last'.handed[k].event # j
        /\ \A k \in 1..Len(last'.handed) :
              last'.steps[last'.handed[k].event].ldap = "found"
        /\ \A name \in Names :
              (\A j \in 1..Len(last'.steps) :
                  last'.steps[j].raw_name = name => last'.steps[j].ldap # "found")
              => /\ get_generated_message(generated_messages', name, last'.date)
                       = get_generated_message(generated_messages, name, last'.date)
                 /\ (<<name, last'.date>> \in DOMAIN sent_messages')
                       = (<<name, last'.date>> \in DOMAIN sent_messages)
        /\ ~last'.raised]_vars

\* C8 witness: a pass in which the directory failed for one person, who got
\* nothing, and found another, whose message was delivered.
C8_Witness ==
    /\ last.op = "send_birthday_messages"
    /\ Len(last.events) = 2
    /\ last.steps[1].ldap = "error" /\ last.steps[2].ldap = "found"
    /\ HandedEvents = {2}
    /\ last.handed[1].posted
    /\ <<last.events[1].name, last.date>> \notin DOMAIN generated_messages
    /\ <<last.events[2].name, last.date>> \in DOMAIN generated_messages

C9_EventsFollowValidity ==
    [][last'.op = "get_birthday_events_for_date" =>
        /\ \A j \in 1..Len(last'.events) :
              LET e == last'.events[j]
                  step == last'.steps[j]
              IN  /\ e.will_send = e.ldap_valid
                  /\ e.ldap_valid = (step.ldap = "found")
                  /\ ~e.ldap_valid => /\ e.message = None
                                      /\ e.message_data = None
                                      /\ step.calls = 0
                                      /\ step.store_key = None
                  /\ e.ldap_valid => e.message # None
        /\ \A name \in Names :
              (\A j \in 1..Len(last'.steps) :
                  last'.steps[j].raw_name = name => last'.steps[j].ldap # "found")
              => /\ get_generated_message(generated_messages', name, last'.date)
                       = get_generated_message(generated_messages, name, last'.date)
                 /\ Get(history', name, <<>>) = Get(history, name, <<>>)
                 /\ (name \in DOMAIN history') = (name \in DOMAIN history)
                 /\ \A k \in 1..Len(last'.calls) : last'.calls[k].name # name]_vars

\* C9 witness: a call emitted one event of a valid person with a generated
\* message and one of a person the directory did not find, with none.
C9_Witness ==
    /\ last.op = "get_birthday_events_for_date"
    /\ config.openai
    /\ Len(last.events) = 2
    /\ last.events[1].ldap_valid /\ last.events[1].message_data # None
    /\ <<last.events[1].name, last.date>> \in DOMAIN generated_messages
    /\ last.events[1].message = Some(generated_messages[<<last.events[1].name, last.date>>].message)
    /\ ~last.events[2].ldap_valid /\ last.events[2].message = None
    /\ <<last.events[2].name, last.date>> \notin DOMAIN generated_messages

\* C10 (as claimed): for every calendar entry that get_birthday_events_for_date
\* processes, the name of the emitted event is the display name the alias
\* table gives for the raw name, the identifier looked up in the directory is
\* the identifier the alias table gives for it, and the store is accessed
\* under that display name.
C10_EventsUseAliases ==
    last.op = "get_birthday_events_for_date" =>
        \A j \in 1..Len(last.events) :
            LET raw_name == last.steps[j].raw_name
            IN  /\ last.events[j].name = get_display_name(aliases, raw_name)
                /\ last.steps[j].uid = get_ldap_uid(aliases, raw_name)
                /\ last.steps[j].store_key # None
                   => last.steps[j].store_key[1][1] = get_display_name(aliases, raw_name)

\* The calendar entries that start on target_date and have a hyphen in their
\* summary, in feed order.
MatchingEntries(target_date) ==
    SelectSeq([i \in 1..Len(feed) |-> i],
              LAMBDA i : /\ feed[i].dtstart = Some(target_date)
                         /\ \E k \in 1..Len(feed[i].summary) : feed[i].summary[k] = "-")

\* The text of a summary before its first hyphen, without the white space
\* around it.
NameBeforeHyphen(summary) ==
    LET hyphen == CHOOSE k \in 1..Len(summary) :
                     summary[k] = "-" /\ \A m \in 1..(k - 1) : summary[m] # "-"
        inner == {k \in 1..(hyphen - 1) : summary[k] # " "}
    IN  IF inner = {} THEN <<>>
        ELSE LET first == CHOOSE k \in inner : \A m \in inner : k <= m
                 final == CHOOSE k \in inner : \A m \in inner : m <= k
             IN  SubSeq(summary, first, final)

\* C11 (as claimed): when the calendar is fetched, get_birthday_events_for_date
\* returns one event per calendar entry that starts on the target date and has
\* a hyphen in its summary, in feed order, named by the trimmed text before
\* the first hyphen, and nothing else (an empty list when no entry matches),
\* for any feed.
C11_OneEventPerMatchingEntry ==
    (last.op = "get_birthday_events_for_date" /\ last.fetched) =>
        LET matching == MatchingEntries(last.date)
        IN  /\ Len(last.events) = Len(matching)
            /\ \A j \in 1..Len(matching) :
                  /\ last.events[j].name = NameBeforeHyphen(feed[matching[j]].summary)
                  /\ last.events[j].summary = feed[matching[j]].summary
                  /\ last.events[j].date = last.date

\* C12: when fetching or parsing the calendar fails,
\* get_birthday_events_for_date returns an empty list and raises nothing, and
\* the send pass for that date hands nothing over, returns no message and
\* leaves the sent tracking and the message store as they were.
C12_FetchFailureSendsNothing ==
    [][(last'.op = "send_birthday_messages" /\ ~last'.fetched) =>
        /\ last'.events = <<>>
        /\ ~last'.raised
        /\ last'.handed = <<>>
        /\ last'.sent_messages = <<>>
        /\ sent_messages' = sent_messages
        /\ generated_messages' = generated_messages]_vars

\* C12 witness: a pass whose fetch failed for a date on which the calendar has
\* a birthday, after an earlier pass had sent for it.
C12_Witness ==
    /\ last.op = "send_birthday_messages"
    /\ ~last.fetched
    /\ MatchingEntries(last.date) # <<>>
    /\ last.events = <<>>
    /\ sent_messages # EmptyDict

\* C13 (as claimed): when the calendar is fetched and the handling of one of
\* its entries fails, get_birthday_events_for_date still returns the events of
\* all the other entries that match the date.
C13_PartialResults ==
    (last.op = "get_birthday_events_for_date" /\ last.fetched) =>
        \A i \in 1..Len(feed) :
            IsBirthdayOn(i, last.date)
            => \E j \in 1..Len(last.events) : last.events[j].summary = feed[i].summary

C15_SentTodayExactly ==
    [][LET key == <<last'.name, last'.date>>
           Answer(sent, name, date) == was_message_sent_today(sent, name, date, now')
           OthersKeep == \A name \in Names, date \in Dates :
                            <<name, date>> # key
                            => Answer(sent_messages', name, date)
                                  = Answer(sent_messages, name, date)
       IN  /\ last'.op = "was_message_sent_today"
              => last'.ok = (/\ key \in DOMAIN sent_messages
                             /\ now - sent_messages[key].sent_at < 24)
           /\ last'.op = "mark_message_sent"
              => Answer(sent_messages', last'.name, last'.date) /\ OthersKeep
           /\ last'.op = "clear_sent_tracking"
              => ~Answer(sent_messages', last'.name, last'.date) /\ OthersKeep]_vars

\* C15 witness: the question was asked for a record of exactly 24 hours, and
\* answered False, while a younger record of another key counts as sent.
C15_Witness ==
    /\ last.op = "was_message_sent_today"
    /\ LastKey \in DOMAIN sent_messages
    /\ now - sent_messages[LastKey].sent_at = 24
    /\ ~last.ok
    /\ \E other \in DOMAIN sent_messages :
          /\ sent_messages[other].sent_at < now
          /\ was_message_sent_today(sent_messages, other[1], other[2], now)

\* A template text that has both placeholders.
HasPlaceholders(template) ==
    /\ \E k \in 1..Len(template) : template[k] = "{employee_name}"
    /\ \E k \in 1..Len(template) : template[k] = "{birthday_date}"

\* C16: an update of the prompt with a text that lacks {employee_name} or
\* {birthday_date} fails and leaves the current template and the prompt
\* history unchanged, so that no text without both placeholders is ever the
\* current template or the template of a history entry.
C16_RejectedTemplateLeavesNoTrace ==
    [][/\ (last'.op = "update_prompt_template" /\ ~HasPlaceholders(last'.text))
          => /\ ~last'.ok
             /\ prompt_template' = prompt_template
             /\ prompt_history' = prompt_history
       /\ HasPlaceholders(prompt_template')
       /\ \A i \in 1..Len(prompt_history') :
             HasPlaceholders(prompt_history'[i].template)]_vars

\* C16 witness: an update without {employee_name} has just been rejected
\* while the template had been changed before.
C16_Witness ==
    /\ last.op = "update_prompt_template"
    /\ last.text = TemplateNoName
    /\ ~last.ok
    /\ prompt_template # DEFAULT_PROMPT_TEMPLATE
    /\ prompt_history # <<>>

\* C17: a successful update of the prompt with a text different from the
\* current one appends exactly one entry to the history, holding the previous
\* current text, the next integer id and active False, and makes the new text
\* current; a successful update with the current text leaves the history
\* unchanged; and every change of the current template, by update or by
\* activation, appends the previous current text to the history.
C17_ChangePushesPrevious ==
    [][/\ (last'.op = "update_prompt_template" /\ last'.ok)
          => /\ prompt_template' = last'.text
             /\ last'.text = prompt_template => prompt_history' = prompt_history
             /\ last'.text # prompt_template
                => /\ Len(prompt_history') = Len(prompt_history) + 1
                   /\ SubSeq(prompt_history', 1, Len(prompt_history)) = prompt_history
                   /\ prompt_history'[Len(prompt_history')].template = prompt_template
                   /\ prompt_history'[Len(prompt_history')].id = Len(prompt_history) + 1
                   /\ prompt_history'[Len(prompt_history')].active = FALSE
       /\ prompt_template' # prompt_template
          => /\ Len(prompt_history') = Len(prompt_history) + 1
             /\ prompt_history'[Len(prompt_history')].template = prompt_template]_vars

\* C17 witness: a second change of the template has just been made by an
\* update, and the history holds the two texts it replaced, in order.
C17_Witness ==
    /\ last.op = "update_prompt_template" /\ last.ok
    /\ Len(prompt_history) = 2
    /\ prompt_history[1].template = DEFAULT_PROMPT_TEMPLATE
    /\ prompt_history[2].template \notin {DEFAULT_PROMPT_TEMPLATE, prompt_template}
    /\ prompt_history[2].id = 2

\* The history entry that an activation of prompt_id finds; 0 when none.
Activated(prompt_id) ==
    IF \E i \in 1..Len(prompt_history) : ToString(prompt_history[i].id) = prompt_id
    THEN CHOOSE i \in 1..Len(prompt_history) :
            /\ ToString(prompt_history[i].id) = prompt_id
            /\ \A k \in 1..(i - 1) : ToString(prompt_history[k].id) # prompt_id
    ELSE 0

\* C18 (as claimed): an activation with the id of a history entry returns True,
\* makes the template of that entry current and appends a new history record
\* describing the reactivation, whatever the entry and the current template.
C18_ActivationAlwaysAppends ==
    [][(last'.op = "activate_prompt_from_history" /\ Activated(last'.text[1]) # 0)
        => LET entry == prompt_history[Activated(last'.text[1])]
           IN  /\ last'.ok
               /\ prompt_template' = entry.template
               /\ Len(prompt_history') = Len(prompt_history) + 1
               /\ SubSeq(prompt_history', 1, Len(prompt_history)) = prompt_history
               /\ Head(prompt_history'[Len(prompt_history')].description) = "Reactivated:"]_vars

\* C18 (amended): an activation with the id of a history entry returns True
\* and makes the template of that entry current; when that template differs
\* from the current one it appends a new history record, which holds the
\* replaced text and describes the reactivation, and when it is the current
\* one the history is unchanged; the entries already there stay as they were.
C18_ActivationAppendsOnChange ==
    [][(last'.op = "activate_prompt_from_history" /\ Activated(last'.text[1]) # 0)
        => LET entry == prompt_history[Activated(last'.text[1])]
           IN  /\ last'.ok
               /\ prompt_template' = entry.template
               /\ entry.template = prompt_template => prompt_history' = prompt_history
               /\ entry.template # prompt_template
                  => /\ Len(prompt_history') = Len(prompt_history) + 1
                     /\ SubSeq(prompt_history', 1, Len(prompt_history)) = prompt_history
                     /\ prompt_history'[Len(prompt_history')].template = prompt_template
                     /\ prompt_history'[Len(prompt_history')].description
                           = <<"Reactivated:">> \o entry.description]_vars

\* C18 witness: an activation has just promoted a history entry and appended
\* the record of the reactivation.
C18_Witness ==
    /\ last.op = "activate_prompt_from_history" /\ last.ok
    /\ last.text # <<"current">>
    /\ Len(prompt_history) >= 2
    /\ Head(prompt_history[Len(prompt_history)].description) = "Reactivated:"
    /\ \E i \in 1..(Len(prompt_history) - 1) :
          /\ ToString(prompt_history[i].id) = last.text[1]
          /\ prompt_history[i].template = prompt_template

\* C19: the prompt history is append-only: the history before a call is a
\* prefix of the history after it, the ids of the entries are distinct
\* integers that increase in append order, and every entry has active False.
C19_HistoryAppendOnly ==
    [][/\ Len(prompt_history) <= Len(prompt_history')
       /\ SubSeq(prompt_history', 1, Len(prompt_history)) = prompt_history
       /\ \A i \in 1..Len(prompt_history') :
             /\ prompt_history'[i].id \in Nat
             /\ prompt_history'[i].active = FALSE
             /\ \A k \in 1..(i - 1) : prompt_history'[k].id < prompt_history'[i].id]_vars

\* C19 witness: the history holds three entries, made by updates and by an
\* activation.
C19_Witness ==
    /\ Len(prompt_history) = 3
    /\ \E i \in 1..3 : Head(prompt_history[i].description) = "Reactivated:"
    /\ \E i \in 1..3 : Head(prompt_history[i].description) # "Reactivated:"

\* C20: an activation of "current" returns True and an activation with an id
\* that matches no history entry returns False, and both leave the current
\* template and the history unchanged.
C20_ActivationWithoutPromotion ==
    [][(last'.op = "activate_prompt_from_history" /\ Activated(last'.text[1]) = 0)
        => /\ last'.ok = (last'.text[1] = "current")
           /\ prompt_template' = prompt_template
           /\ prompt_history' = prompt_history]_vars

\* C20 witness: with a changed template and a history, "current" has just
\* been activated.
C20_Witness ==
    /\ last.op = "activate_prompt_from_history"
    /\ last.text = <<"current">> /\ last.ok
    /\ prompt_template # DEFAULT_PROMPT_TEMPLATE
    /\ prompt_history # <<>>

\* C21: the current template starts with both placeholders and, after any
\* sequence of updates and activations, accepted or rejected, it contains
\* {employee_name} and {birthday_date}.
C21_CurrentHasPlaceholders ==
    /\ Contains(prompt_template, "{employee_name}")
    /\ Contains(prompt_template, "{birthday_date}")

\* C21 witness: the template has been replaced, reactivations and a rejected
\* update have been made, and the last call is a rejected update.
C21_Witness ==
    /\ last.op = "update_prompt_template" /\ ~last.ok
    /\ prompt_template # DEFAULT_PROMPT_TEMPLATE
    /\ \E i \in 1..Len(prompt_history) :
          Head(prompt_history[i].description) = "Reactivated:"

\* A name trimmed of the white space around it, with every space replaced by
\* a dot and every letter in lower case.
TrimDotsLower(name) ==
    [i \in 1..Len(Strip(name)) |->
        IF Strip(name)[i] = " " THEN "." ELSE LowerTok(Strip(name)[i])]

\* C22: a registration for a raw name that already has an alias fails with an
\* error and leaves the alias table as it was: the alias keeps its display
\* name, identifier, notes and creation timestamp.
C22_DoubleRegistrationFails ==
    [][(last'.op = "add_alias" /\ last'.name \in DOMAIN aliases)
        => /\ last'.raised
           /\ last'.ret = None
           /\ aliases' = aliases]_vars

\* C22 witness: a registration has just failed for a name registered at an
\* earlier time under another display name.
C22_Witness ==
    /\ last.op = "add_alias" /\ last.raised
    /\ last.name \in DOMAIN aliases
    /\ aliases[last.name].display_name # last.text
    /\ aliases[last.name].created_at < now

\* C23: after any sequence of registrations, updates and removals from the
\* empty table, a successful registration or update stores the display name
\* it was given, every other step leaves the display names as they were, and
\* the identifier of every alias is its display name trimmed, with spaces
\* replaced by dots, in lower case.
C23_LatestDisplayNameAndIdentifier ==
    [][/\ (last'.op \in {"add_alias", "update_alias"} /\ last'.ok)
          => /\ last'.name \in DOMAIN aliases'
             /\ aliases'[last'.name].display_name = last'.text
       /\ \A n \in DOMAIN aliases' :
             /\ ~(last'.op \in {"add_alias", "update_alias"} /\ last'.ok /\ last'.name = n)
                => /\ n \in DOMAIN aliases
                   /\ aliases'[n].display_name = aliases[n].display_name
             /\ aliases'[n].ldap_uid = TrimDotsLower(aliases'[n].display_name)]_vars

\* C23 witness: an alias registered under one display name has just been
\* given another one, with white space around it.
C23_Witness ==
    /\ last.op = "update_alias" /\ last.ok
    /\ last.text = <<"\t", "D", " ">>
    /\ aliases[last.name].ldap_uid = <<"d">>
    /\ \E n \in DOMAIN aliases : n # last.name /\ aliases[n].ldap_uid = <<"a", ".", "b">>

\* C24: for a raw name without an alias the identifier is the name trimmed of
\* the white space around it, in lower case, with every space replaced by a
\* dot, whatever the state of the manager, and asking for it changes nothing.
C24_IdentifierOfUnaliasedName ==
    [][(last'.op = "get_ldap_uid" /\ last'.name \notin DOMAIN aliases)
        => /\ last'.text = TrimDotsLower(last'.name)
           /\ aliases' = aliases
           /\ aliases_file' = aliases_file]_vars

\* C24 witness: the identifier of a name with white space around it has just
\* been asked for, while another name has an alias.
C24_Witness ==
    /\ last.op = "get_ldap_uid"
    /\ last.name = <<" ", "C", " ", "D", "\t">>
    /\ last.name \notin DOMAIN aliases
    /\ aliases # EmptyDict
    /\ last.text = <<"c", ".", "d">>

\* C25: an update of an alias keeps the notes when notes is None, keeps the
\* creation timestamp and every other alias in every case, and for a raw name
\* without an alias returns None and leaves the table unchanged.
C25_UpdateAliasFrame ==
    [][last'.op = "update_alias"
        => IF last'.name \notin DOMAIN aliases
           THEN last'.ret = None /\ aliases' = aliases
           ELSE /\ DOMAIN aliases' = DOMAIN aliases
                /\ \A n \in DOMAIN aliases : n # last'.name => aliases'[n] = aliases[n]
                /\ aliases'[last'.name].created_at = aliases[last'.name].created_at
                /\ last'.notes = None
                   => aliases'[last'.name].notes = aliases[last'.name].notes
                /\ last'.notes # None
                   => aliases'[last'.name].notes = last'.notes[1]]_vars

\* C25 witness: an alias with notes, registered at an earlier time, has just
\* been updated without notes while another alias exists.
C25_Witness ==
    /\ last.op = "update_alias" /\ last.ok /\ last.notes = None
    /\ aliases[last.name].notes = <<"nickname">>
    /\ aliases[last.name].created_at < now
    /\ \E n \in DOMAIN aliases : n # last.name

\* C26: the records handed out by get_alias, get_all_aliases, add_alias and
\* update_alias are copies: when a holder assigns to a field of the record it
\* was handed, the table and what get_alias, get_all_aliases and
\* get_display_name return afterwards are what they were before.
C26_ReturnedRecordsAreCopies ==
    [][last'.op = "mutate_returned"
        => /\ aliases' = aliases
           /\ get_all_aliases(aliases').ret = get_all_aliases(aliases).ret
           /\ \A n \in AliasRawNames :
                 /\ get_alias(aliases', n).ret = get_alias(aliases, n).ret
                 /\ get_display_name(aliases', n) = get_display_name(aliases, n)]_vars

\* C26 witness: the holder of a record for a registered name has just changed
\* its display name, and the table still has the registered one.
C26_Witness ==
    /\ last.op = "mutate_returned"
    /\ last.name \in DOMAIN aliases
    /\ last.ret[1].display_name = <<"Modified">>
    /\ aliases[last.name].display_name # <<"Modified">>

\* C27: after every registration, update or removal that reports success, a
\* newly constructed AliasManager over the same data directory holds exactly
\* the aliases of the manager that made the call.
C27_FileHoldsTheTable ==
    (last.op \in {"add_alias", "update_alias", "delete_alias"} /\ last.ok)
        => load_aliases(aliases_file) = aliases

\* C28: after any sequence of generations the fact list of every name has no
\* fact twice, and a list grows only by a fact it did not have.
C28_NoDuplicateFacts ==
    [][\A n \in DOMAIN history' :
          /\ \A i, k \in 1..Len(history'[n]) :
                history'[n][i] = history'[n][k] => i = k
          /\ (n \in DOMAIN history /\ Len(history'[n]) > Len(history[n]))
             => \A i \in 1..Len(history[n]) :
                   history[n][i] # history'[n][Len(history'[n])]]_vars

\* C28 witness: a regeneration has just answered with a fact the list of two
\* facts of the name already had.
C28_Witness ==
    /\ last.op = "generate_message" /\ last.regenerate
    /\ last.ret # None
    /\ last.ret[1].historical_fact = Some(<<"moon">>)
    /\ last.name \in DOMAIN history
    /\ history[last.name] = <<<<"moon">>, <<"sun">>>>

\* C29: the fact history grows monotonically: every fact in the list of a
\* name before a generate_message call is in that list after the call,
\* whatever the backend returns.
C29_FactsAreKept ==
    [][\A n \in DOMAIN history :
          /\ n \in DOMAIN history'
          /\ \A i \in 1..Len(history[n]) :
                \E k \in 1..Len(history'[n]) : history'[n][k] = history[n][i]]_vars

\* C30: whenever the backend is invoked for a name, the prompt starts with the
\* current template filled in for the name and the date; it goes on with an
\* exclusion list exactly when the fact list of the name is non-empty, and the
\* list has one line per fact, "i. fact", for i from 1 in the order of the
\* fact list.
C30_PromptCarriesExclusions ==
    [][(last'.op = "generate_message" /\ last'.calls # <<>>)
        => LET prompt == last'.calls[1].prompt
               base == Format(prompt_template, last'.name, last'.date)
               facts == Get(history, last'.name, <<>>)
               rest == SubSeq(prompt, Len(base) + 1, Len(prompt))
           IN  /\ Len(last'.calls) = 1
               /\ SubSeq(prompt, 1, Len(base)) = base
               /\ (rest # <<>>) <=> (facts # <<>>)
               /\ Cardinality({k \in 1..Len(rest) : rest[k] = "\n"}) = Len(facts)
               /\ \E pos \in [1..Len(facts) -> 1..Len(rest)] :
                     /\ \A i \in 1..Len(facts) :
                           /\ rest[pos[i]] = ToString(i) \o ". "
                           /\ pos[i] + Len(facts[i]) + 1 <= Len(rest)
                           /\ SubSeq(rest, pos[i] + 1, pos[i] + Len(facts[i])) = facts[i]
                           /\ rest[pos[i] + Len(facts[i]) + 1] = "\n"
                     /\ \A i \in 1..(Len(facts) - 1) : pos[i] < pos[i + 1]]_vars

\* C30 witness: the backend has just been invoked under a replaced template
\* for a name with two facts, and the prompt lists both.
C30_Witness ==
    /\ last.op = "generate_message" /\ last.calls # <<>>
    /\ prompt_template = TemplateNew
    /\ Contains(last.calls[1].prompt, "1. ")
    /\ Contains(last.calls[1].prompt, "2. ")
    /\ Contains(last.calls[1].prompt, "Write to")

\* C31: generate_message with regenerate=True always invokes the backend, also
\* when an entry, manually edited or not, exists for the key; when the backend
\* answers, the entry of the key is replaced by the returned record, which is
\* marked regenerated and carries no manual-edit flag.
C31_RegenerateInvokesBackend ==
    [][(last'.op = "generate_message" /\ last'.regenerate)
        => /\ Len(last'.calls) = 1
           /\ (last'.ret # None /\ "fallback" \notin DOMAIN last'.ret[1])
              => /\ <<last'.name, last'.date>> \in DOMAIN generated_messages'
                 /\ generated_messages'[<<last'.name, last'.date>>] = last'.ret[1]
                 /\ last'.ret[1].regenerated
                 /\ "manually_edited" \notin DOMAIN last'.ret[1]]_vars

\* C35: after regenerate_message(name, date) has returned a record, the store
\* returns that record for the key, whatever the backend did, and a key that
\* had a stored message before the call has one after it.
C35_RegenerationInPlace ==
    [][(last'.op = "regenerate_message" /\ last'.ret # None)
        => /\ get_generated_message(generated_messages', last'.name, last'.date) = last'.ret
           /\ <<last'.name, last'.date>> \in DOMAIN generated_messages
              => <<last'.name, last'.date>> \in DOMAIN generated_messages']_vars

\* C36: with no clear_sent in between, the send passes for one date within 24
\* hours hand a (name, date) key to the chat-notification collaborator at most
\* once, with duplicate feed entries and with or without a backend: no key is
\* handed over twice within one pass, and a pass that directly follows a pass
\* for the same date hands over no key the earlier pass handed over.
C36_AtMostOncePerKey ==
    [][last'.op = "send_birthday_messages" =>
        /\ \A j, k \in 1..Len(last'.handed) :
              j # k => last'.handed[j].name # last'.handed[k].name
        /\ (last.op = "send_birthday_messages" /\ last.date = last'.date)
           => \A j \in 1..Len(last.handed), k \in 1..Len(last'.handed) :
                 last.handed[j].name # last'.handed[k].name]_vars

\* What a send pass does with the key of a manual edit that was not regenerated
\* or edited again: the pass is for the key's date, resolves a send-eligible
\* event of the person, and no sent record of the key suppresses it.
EditedKeyIsDue(key) ==
    /\ key[2] = last'.date
    /\ \E j \in 1..Len(last'.events) :
          last'.events[j].name = key[1] /\ last'.events[j].will_send
    /\ ~was_message_sent_today(sent_messages, key[1], key[2], now)

\* The pass hands the edited text of the key, and nothing else for the key, to
\* the collaborator, and the sent record it makes holds the edited text.
EditedTextDelivered(key) ==
    /\ \E k \in 1..Len(last'.handed) :
          last'.handed[k].name = key[1] /\ last'.handed[k].message = edits[key]
    /\ \A k \in 1..Len(last'.handed) :
          last'.handed[k].name = key[1] => last'.handed[k].message = edits[key]
    /\ (\E k \in 1..Len(last'.handed) :
           last'.handed[k].name = key[1] /\ ~last'.handed[k].raised)
       => /\ key \in DOMAIN sent_messages'
          /\ sent_messages'[key].message = edits[key]

C38_EventMessage ==
    [][last'.op = "get_birthday_events_for_date" =>
        \A j \in 1..Len(last'.events) :
            LET e == last'.events[j]
                key == <<e.name, e.date>>
                simple == e.message = Some(SimpleMessage(e.name))
            IN  e.ldap_valid =>
                /\ (config.openai /\ key \in DOMAIN generated_messages)
                   => e.message = Some(generated_messages[key].message)
                /\ (e.message_data # None /\ "error" \notin DOMAIN e.message_data[1])
                   => /\ key \in DOMAIN generated_messages'
                      /\ e.message = Some(generated_messages'[key].message)
                /\ ~config.openai => simple
                /\ (config.openai /\ key \notin DOMAIN generated_messages
                    /\ FormatRaises(prompt_template)) => simple
                /\ (e.message_data # None /\ "error" \in DOMAIN e.message_data[1])
                   => simple
                /\ e.message_data = None => simple]_vars

\* C38 witness: one call has resolved a valid entry to the text of its store
\* record and another valid entry, for which the backend failed, to the
\* simple message.
C38_Witness ==
    /\ last.op = "get_birthday_events_for_date"
    /\ \E j, k \in 1..Len(last.events) :
          /\ last.events[j].ldap_valid /\ last.events[k].ldap_valid
          /\ <<last.events[j].name, last.date>> \in DOMAIN generated_messages
          /\ last.events[j].message
                = Some(generated_messages[<<last.events[j].name, last.date>>].message)
          /\ last.events[k].message_data # None
          /\ "error" \in DOMAIN last.events[k].message_data[1]
          /\ last.events[k].message = Some(SimpleMessage(last.events[k].name))

\* C39: a refresh resolves every date of the look-ahead window, from today to
\* today plus the look-ahead, exactly once and in order, and no other date;
\* the snapshot it installs has a key exactly for the dates whose resolution
\* returned events, holding those events; with the default settings the
\* window is today and the next 21 days, 22 resolutions.
C39_WindowResolvedOnce ==
    [][last'.op = "update_birthday_cache" =>
        /\ Len(last'.resolved) = config.look_ahead_days + 1
        /\ \A k \in 1..Len(last'.resolved) : last'.resolved[k] = Today + k - 1
        /\ DOMAIN birthday_cache'
              = {last'.events[j].date : j \in 1..Len(last'.events)}
        /\ \A d \in DOMAIN birthday_cache' :
              birthday_cache'[d] = SelectSeq(last'.events, LAMBDA e : e.date = d)
        /\ config.look_ahead_days = DefaultLookAhead
           => Len(last'.resolved) = ExpectedResolutions]_vars

\* C40: the prompt state round-trips through the files: after any sequence of
\* update and activate calls, a manager constructed over the same directories
\* has the same current template text and the same history, entry by entry,
\* as the manager that made the calls.
C40_PromptRoundTrip ==
    /\ load_prompt_files(prompt_files).template = prompt_template
    /\ load_prompt_files(prompt_files).history = prompt_history

\* C32: no update of the message store is lost when refreshes of the cache,
\* also several at once, run at the same time as a manual update of a key:
\* once update has returned true, the stored message of the key is the edited
\* text until the key is regenerated or updated again.
C32_NoLostUpdate ==
    \A key \in DOMAIN edits :
        /\ key \in DOMAIN generated_messages
        /\ generated_messages[key].message = edits[key]

\* The snapshots installed so far: the one of the start, and the new_cache of
\* every refresh that has run to its end and installed it.
Snapshots ==
    {EmptyDict} \cup {threads[t].new_cache :
                         t \in {u \in DOMAIN threads : threads[u].installed}}

\* C33: the cache is replaced as a whole: at every moment the cache, and so
\* what a reader of the cache is given, is the complete result of one refresh
\* (or the empty cache of the start), never a partly filled snapshot or a mix
\* of two; a refresh that fails installs nothing and leaves the cache as it
\* was.
C33_WholeSnapshots ==
    /\ [](/\ birthday_cache \in Snapshots
          /\ last.op = "api_birthdays"
             => \E snapshot \in Snapshots : last.ret = Some(formatted_data(snapshot))
          /\ \A t \in DOMAIN threads :
                threads[t].installed
                => /\ threads[t].current_date = threads[t].end_date + 1
                   /\ ~threads[t].failed)
    /\ [][\A t \in DOMAIN threads :
             (t \in DOMAIN threads' /\ threads'[t].failed /\ ~threads[t].failed)
             => /\ birthday_cache' = birthday_cache
                /\ ~threads'[t].installed]_vars

\* C33 witness: the dashboard has read a filled snapshot while another
\* refresh was half way through its window, its new_cache partly filled and
\* different from the cache.
C33_Witness ==
    /\ last.op = "api_birthdays"
    /\ last.ret = Some(formatted_data(birthday_cache))
    /\ birthday_cache # EmptyDict
    /\ \E t \in DOMAIN threads :
          /\ threads[t].pc \in {"walk", "backend"}
          /\ threads[t].new_cache # EmptyDict
          /\ threads[t].new_cache # birthday_cache

\* The cache shows the text for the key: the snapshot has an event of the
\* person on the date whose message is the text.
CacheShows(cache, key, text) ==
    /\ key[2] \in DOMAIN cache
    /\ \E j \in 1..Len(cache[key[2]]) :
          /\ cache[key[2]][j].name = key[1]
          /\ cache[key[2]][j].message = Some(text)

\* C34: snapshots never go backwards: once a snapshot that shows the edited
\* text of a key is installed, no snapshot installed later by an overlapping
\* refresh shows an older text for the key, as long as the key is not edited
\* or regenerated again.
C34_SnapshotsNeverGoBack ==
    [][\A key \in DOMAIN edits :
          (key \in DOMAIN edits' /\ edits'[key] = edits[key]
           /\ CacheShows(birthday_cache, key, edits[key]))
          => CacheShows(birthday_cache', key, edits[key])]_vars

====
